---- MODULE Spec2Model ----
(***************************************************************************)
(* Model of the odds core of draft-killer:                                 *)
(*   backend/app/services/odds_api/client.py   (OddsApiClient)             *)
(*   backend/app/services/odds_api/service.py  (OddsService)               *)
(* Text is a sequence of one-character strings.  Time is in seconds.       *)
(***************************************************************************)
EXTENDS Integers, Sequences, FiniteSets, TLC

(***************************************************************************)
(* Bounds of the model.                                                    *)
(***************************************************************************)
NCallers == 2
MaxTime == 3600
TickStep == 900
MaxUpstream == 2
MaxParams == 2
MaxQuotes == 3
MaxBookmakers == 2
MaxTokens == 4
MaxGames == 2
MaxLegs == 3
MaxQueries == 3
MaxCalls == 2
MaxClears == 2
MaxHalfPoints == 2
MaxResponses == 2
MaxRecords == 12
MaxUserRecords == 2

(***************************************************************************)
(* Program constants.                                                      *)
(***************************************************************************)
CACHE_DEFAULT_TTL == 1800
CACHE_SPORTS_TTL == 3600
LEGACY_CACHE_TTL == 1800
ANONYMOUS_REQUEST_LIMIT == 10

\* Optional[T]: None is the empty sequence, a present value x is <<x>>.
None == <<>>
Some(x) == <<x>>

(***************************************************************************)
(* Text helpers: code points of the characters the model uses, Python's    *)
(* str comparison, str.join.                                               *)
(***************************************************************************)
Ord(ch) ==
  CASE ch = " " -> 32
    [] ch = "&" -> 38
    [] ch = "+" -> 43
    [] ch = "," -> 44
    [] ch = "-" -> 45
    [] ch = "." -> 46
    [] ch = "/" -> 47
    [] ch = "0" -> 48
    [] ch = "1" -> 49
    [] ch = "2" -> 50
    [] ch = "3" -> 51
    [] ch = "4" -> 52
    [] ch = "5" -> 53
    [] ch = "6" -> 54
    [] ch = "7" -> 55
    [] ch = "8" -> 56
    [] ch = "9" -> 57
    [] ch = "=" -> 61
    [] ch = "?" -> 63
    [] ch = "C" -> 67
    [] ch = "K" -> 75
    [] ch = "L" -> 76
    [] ch = "M" -> 77
    [] ch = "a" -> 97
    [] ch = "b" -> 98
    [] ch = "c" -> 99
    [] ch = "h" -> 104
    [] ch = "k" -> 107
    [] ch = "l" -> 108
    [] ch = "m" -> 109
    [] ch = "o" -> 111
    [] ch = "s" -> 115
    [] OTHER -> 0

RECURSIVE StrLess(_, _)
StrLess(a, b) ==
  IF b = <<>> THEN FALSE
  ELSE IF a = <<>> THEN TRUE
  ELSE IF Ord(Head(a)) # Ord(Head(b)) THEN Ord(Head(a)) < Ord(Head(b))
  ELSE StrLess(Tail(a), Tail(b))

\* str.lower and the substring test "needle in hay".
LowerChar(ch) ==
  CASE ch = "C" -> "c"
    [] ch = "K" -> "k"
    [] ch = "L" -> "l"
    [] ch = "M" -> "m"
    [] ch = "O" -> "o"
    [] ch = "U" -> "u"
    [] OTHER -> ch

UpperChar(ch) ==
  CASE ch = "c" -> "C"
    [] ch = "d" -> "D"
    [] ch = "e" -> "E"
    [] ch = "k" -> "K"
    [] ch = "l" -> "L"
    [] ch = "m" -> "M"
    [] ch = "n" -> "N"
    [] ch = "o" -> "O"
    [] ch = "r" -> "R"
    [] ch = "u" -> "U"
    [] ch = "v" -> "V"
    [] OTHER -> ch

Upper(text) == [i \in 1..Len(text) |-> UpperChar(text[i])]

IsSpace(ch) == ch = " "
IsDigit(ch) == ch \in {"0", "1", "2", "3", "4", "5", "6", "7", "8", "9"}
IsSign(ch) == ch \in {"+", "-"}

\* str.strip
RECURSIVE LStrip(_)
LStrip(text) ==
  IF text # <<>> /\ IsSpace(Head(text)) THEN LStrip(Tail(text)) ELSE text

RECURSIVE RStrip(_)
RStrip(text) ==
  IF text # <<>> /\ IsSpace(text[Len(text)])
  THEN RStrip(SubSeq(text, 1, Len(text) - 1)) ELSE text

Strip(text) == RStrip(LStrip(text))

StartsWith(text, i, word) ==
  /\ i + Len(word) - 1 <= Len(text)
  /\ \A j \in 1..Len(word) : text[i + j - 1] = word[j]

\* str.replace(old, ""): the occurrences of old are dropped from left to
\* right, without overlap.
RECURSIVE Remove(_, _)
Remove(text, old) ==
  IF text = <<>> THEN <<>>
  ELSE IF StartsWith(text, 1, old)
  THEN Remove(SubSeq(text, Len(old) + 1, Len(text)), old)
  ELSE <<Head(text)>> \o Remove(Tail(text), old)

Lower(text) == [i \in 1..Len(text) |-> LowerChar(text[i])]

Contains(hay, needle) ==
  \E i \in 0..(Len(hay) - Len(needle)) :
     \A j \in 1..Len(needle) : hay[i + j] = needle[j]

RECURSIVE Join(_, _)
Join(sep, parts) ==
  IF parts = <<>> THEN <<>>
  ELSE IF Len(parts) = 1 THEN parts[1]
  ELSE parts[1] \o sep \o Join(sep, Tail(parts))

(***************************************************************************)
(* A dict is the sequence of its <<key, value>> items in insertion order   *)
(* (keys distinct).  sorted(params.items()) orders the items by key.       *)
(***************************************************************************)
RECURSIVE InsertItem(_, _)
InsertItem(item, items) ==
  IF items = <<>> THEN <<item>>
  ELSE IF StrLess(item[1], items[1][1]) THEN <<item>> \o items
  ELSE <<items[1]>> \o InsertItem(item, Tail(items))

RECURSIVE SortedItems(_)
SortedItems(params) ==
  IF params = <<>> THEN <<>>
  ELSE InsertItem(params[1], SortedItems(Tail(params)))

\* hashlib.md5(content).hexdigest(): the digest is not computed; it is
\* modelled as a tag on the hashed content (collisions of MD5 itself are
\* left out, collisions of the content string are not).
md5(content) == <<"md5", content>>

make_cache_key(endpoint, params) ==
  LET items == SortedItems(params)
      param_str == Join(<<"&">>, [i \in 1..Len(items) |->
                                    items[i][1] \o <<"=">> \o items[i][2]])
      content == endpoint \o <<"?">> \o param_str
  IN md5(content)

(***************************************************************************)
(* OddsApiClient: the requests the public methods build.  Endpoint and     *)
(* parameter texts are abbreviated ("/s" for /sports, "/o" for an odds     *)
(* endpoint, "m" for markets).                                             *)
(***************************************************************************)
Callers == 1..NCallers

get_sports == [endpoint |-> <<"/", "s">>, params |-> <<>>,
               cache_ttl |-> Some(CACHE_SPORTS_TTL)]
get_odds == [endpoint |-> <<"/", "o">>,
             params |-> << << <<"m">>, <<"h">> >> >>,
             cache_ttl |-> None]

Requests == {get_sports, get_odds}

\* get_odds(sport_key): the endpoint f"/sports/{sport_key}/odds", abbreviated
\* to "/" sport_key "/o".
SportKeys == {<<"n", "f", "l">>, <<"n", "b", "a">>}
get_odds_of(sport_key) ==
  [endpoint |-> <<"/">> \o sport_key \o <<"/", "o">>,
   params |-> << << <<"m">>, <<"h">> >> >>,
   cache_ttl |-> None]
SportRequests == {get_odds_of(sport_key) : sport_key \in SportKeys}

KeyOf(r) == make_cache_key(r.endpoint, r.params)
CacheKeys == {KeyOf(r) : r \in Requests \cup SportRequests}

\* Response headers the provider may send with a 2xx answer.
HeaderSets ==
  { <<>>,
    [h \in {"x-requests-remaining"} |-> 7],
    [h \in {"x-requests-remaining", "x-requests-used", "x-requests-last"} |->
        CASE h = "x-requests-remaining" -> 6
          [] h = "x-requests-used" -> 4
          [] OTHER -> 1] }

\* What requests.get can produce: a response with a status code, or a
\* network failure (a requests.exceptions.RequestException).
ErrorStatuses == {429, 401, 503}
Outcomes ==
  {[kind |-> "response", status_code |-> 200, headers |-> h] : h \in HeaderSets}
  \cup {[kind |-> "response", status_code |-> s, headers |-> <<>>] :
          s \in ErrorStatuses}
  \cup {[kind |-> "network_error", status_code |-> 0, headers |-> <<>>]}

VARIABLES now, cache, request_cache, usage, pc, call, response, result,
          sent, seen, callTime, upstream, served, last,
          input, output,
          legacy_cache, last_requests_remaining, legacy_served, enrich_calls,
          usage_records

vars == <<now, cache, request_cache, usage, pc, call, response, result,
          sent, seen, callTime, upstream, served, last, input, output,
          legacy_cache, last_requests_remaining, legacy_served, enrich_calls,
          usage_records>>

\* The state of the client, and the argument and value of a function of the
\* service that is applied on its own.
client == <<now, cache, request_cache, usage, pc, call, response, result,
            sent, seen, callTime, upstream, served, last>>
pure == <<input, output>>

\* The legacy OddsService object of odds_service.py (its _cache and
\* _last_requests_remaining), the number of bodies the provider has sent to
\* it, and the record of its enrich_from_api_queries calls; with it, the
\* state outside OddsApiClient: the rows of the usage table of the database
\* (usage_records), counted per owner (the anonymous session, the user).
legacy == <<legacy_cache, last_requests_remaining, legacy_served, enrich_calls,
            usage_records>>

NoInput == [kind |-> "none"]
NoOutput == [kind |-> "none"]

\* A caller outside _make_request has no arguments, response or result.
NoCall == [endpoint |-> <<>>, params |-> <<>>, cache_ttl |-> None]
NoOutcome == [kind |-> "none", status_code |-> 0, headers |-> <<>>]
NoResult == [kind |-> "none"]

\* ApiUsage() and the empty dicts of OddsApiClient.__init__.
ApiUsage == [requests_remaining |-> None, requests_used |-> None,
             requests_last_cost |-> None, last_reset |-> None]

ClientInit ==
  /\ now = 0
  /\ cache = <<>>
  /\ request_cache = <<>>
  /\ usage = ApiUsage
  /\ pc = [c \in Callers |-> "idle"]
  /\ call = [c \in Callers |-> NoCall]
  /\ response = [c \in Callers |-> NoOutcome]
  /\ result = [c \in Callers |-> NoResult]
  /\ sent = [c \in Callers |-> 0]
  /\ seen = [c \in Callers |-> None]
  /\ callTime = [c \in Callers |-> 0]
  /\ upstream = [k \in CacheKeys |-> 0]
  /\ served = 0
  /\ last = [k \in CacheKeys |-> "none"]
  /\ legacy_cache = <<>>
  /\ last_requests_remaining = None
  /\ legacy_served = 0
  /\ enrich_calls = <<>>
  /\ usage_records = [session |-> 0, user |-> 0]

Init ==
  /\ ClientInit
  /\ input = NoInput
  /\ output = NoOutput

is_cache_valid(cache_key) ==
  IF cache_key \notin DOMAIN cache THEN FALSE
  ELSE now - cache[cache_key].timestamp < cache[cache_key].ttl

\* Lines 109-115 of _make_request: what the call answers without going
\* upstream (use_cache has its default, True), or None.
Hit(data) == [kind |-> "data", data |-> data]

CachedAnswerMut(cache_key) == NoResult

CachedAnswer(cache_key) ==
  IF is_cache_valid(cache_key) THEN Hit(cache[cache_key].data)
  ELSE IF cache_key \in DOMAIN request_cache THEN Hit(request_cache[cache_key])
  ELSE NoResult

TotalUpstream == LET RECURSIVE Sum(_)
                     Sum(S) == IF S = {} THEN 0
                               ELSE LET k == CHOOSE x \in S : TRUE
                                    IN upstream[k] + Sum(S \ {k})
                 IN Sum(CacheKeys)

\* _make_request up to and including the call of requests.get.
MakeRequest(c, r) ==
  /\ pc[c] = "idle"
  /\ LET cache_key == KeyOf(r)
         answer == CachedAnswer(cache_key)
     IN /\ call' = [call EXCEPT ![c] = r]
        /\ callTime' = [callTime EXCEPT ![c] = now]
        /\ seen' = [seen EXCEPT ![c] =
                      IF cache_key \in DOMAIN cache
                      THEN Some(cache[cache_key]) ELSE None]
        /\ response' = [response EXCEPT ![c] = NoOutcome]
        /\ IF answer.kind # "none"
           THEN /\ pc' = [pc EXCEPT ![c] = "returned"]
                /\ result' = [result EXCEPT ![c] = answer]
                /\ sent' = [sent EXCEPT ![c] = 0]
                /\ UNCHANGED upstream
           ELSE /\ TotalUpstream < MaxUpstream
                /\ pc' = [pc EXCEPT ![c] = "waiting"]
                /\ result' = [result EXCEPT ![c] = NoResult]
                /\ sent' = [sent EXCEPT ![c] = 1]
                /\ upstream' = [upstream EXCEPT ![cache_key] = @ + 1]
  /\ UNCHANGED <<now, cache, request_cache, usage, served, last, pure, legacy>>

update_usage_from_response_mut(u, headers) ==
  [u EXCEPT
     !.requests_remaining =
        IF "x-requests-remaining" \in DOMAIN headers
        THEN Some(headers["x-requests-remaining"]) ELSE None,
     !.requests_used =
        IF "x-requests-used" \in DOMAIN headers
        THEN Some(headers["x-requests-used"]) ELSE None,
     !.requests_last_cost =
        IF "x-requests-last" \in DOMAIN headers
        THEN Some(headers["x-requests-last"]) ELSE None]

\* _update_usage_from_response
update_usage_from_response(u, headers) ==
  [u EXCEPT
     !.requests_remaining =
        IF "x-requests-remaining" \in DOMAIN headers
        THEN Some(headers["x-requests-remaining"]) ELSE @,
     !.requests_used =
        IF "x-requests-used" \in DOMAIN headers
        THEN Some(headers["x-requests-used"]) ELSE @,
     !.requests_last_cost =
        IF "x-requests-last" \in DOMAIN headers
        THEN Some(headers["x-requests-last"]) ELSE @]

HTTPException(status_code, detail) ==
  [kind |-> "HTTPException", status_code |-> status_code, detail |-> detail]

RaisedForMut(o) ==
  IF o.kind = "network_error"
  THEN HTTPException(500, <<"API request failed", "ConnectionError">>)
  ELSE HTTPException(500, <<"API request failed", "HTTPException", o.status_code>>)

\* The exception _make_request raises for an outcome of requests.get that is
\* not a 2xx response.
RaisedFor(o) ==
  IF o.kind = "network_error"
  THEN HTTPException(500, <<"API request failed", "ConnectionError">>)
  ELSE IF o.status_code = 429
  THEN HTTPException(429, <<"Rate limit exceeded">>)
  ELSE IF o.status_code = 401
  THEN HTTPException(401, <<"API quota exceeded or invalid API key">>)
  ELSE HTTPException(500, <<"API request failed", "HTTPError", o.status_code>>)

Put(f, k, v) == [x \in DOMAIN f \cup {k} |-> IF x = k THEN v ELSE f[x]]

\* Lines 125-138: a response passes the 429 test, the 401 test and
\* raise_for_status (which raises for the 4xx and 5xx statuses).
PassesMut(o) ==
  o.kind = "response" /\ o.status_code \notin {429, 401}

Passes(o) ==
  /\ o.kind = "response"
  /\ o.status_code # 429
  /\ o.status_code # 401
  /\ ~(400 <= o.status_code /\ o.status_code < 600)

\* The entry _make_request stores for a decoded body.
CacheEntry(data, cache_ttl) ==
  [data |-> data, timestamp |-> now,
   ttl |-> IF cache_ttl = None \/ cache_ttl = Some(0) THEN CACHE_DEFAULT_TTL
           ELSE cache_ttl[1]]

\* requests.get returns (or raises) and _make_request runs to its end.
\* The body of a 2xx answer is a fresh payload (prices move): the number of
\* bodies the provider has sent identifies it.
UpstreamAnswers(c, o) ==
  /\ pc[c] = "waiting"
  /\ LET cache_key == KeyOf(call[c])
         data == <<"payload", served + 1>>
     IN /\ response' = [response EXCEPT ![c] = o]
        /\ pc' = [pc EXCEPT ![c] = "returned"]
        /\ IF Passes(o)
           THEN /\ usage' = update_usage_from_response(usage, o.headers)
                /\ cache' = Put(cache, cache_key,
                                CacheEntry(data, call[c].cache_ttl))
                /\ request_cache' = Put(request_cache, cache_key, data)
                /\ result' = [result EXCEPT ![c] = Hit(data)]
                /\ last' = [last EXCEPT ![cache_key] = "ok"]
                /\ served' = served + 1
           ELSE /\ result' = [result EXCEPT ![c] = RaisedFor(o)]
                /\ last' = [last EXCEPT ![cache_key] = "failed"]
                /\ UNCHANGED <<cache, request_cache, usage, served>>
  /\ UNCHANGED <<now, call, sent, seen, callTime, upstream, pure, legacy>>

\* The caller takes the value (or the exception) and is free for a next call.
CallerReturns(c) ==
  /\ pc[c] = "returned"
  /\ pc' = [pc EXCEPT ![c] = "idle"]
  /\ call' = [call EXCEPT ![c] = NoCall]
  /\ response' = [response EXCEPT ![c] = NoOutcome]
  /\ result' = [result EXCEPT ![c] = NoResult]
  /\ sent' = [sent EXCEPT ![c] = 0]
  /\ seen' = [seen EXCEPT ![c] = None]
  /\ callTime' = [callTime EXCEPT ![c] = 0]
  /\ UNCHANGED <<now, cache, request_cache, usage, upstream, served, last, pure, legacy>>

clear_cache ==
  /\ cache # <<>> \/ request_cache # <<>>
  /\ cache' = <<>>
  /\ request_cache' = <<>>
  /\ last' = [k \in CacheKeys |-> "none"]
  /\ UNCHANGED <<now, usage, pc, call, response, result, sent, seen,
                 callTime, upstream, served, pure, legacy>>

Tick ==
  /\ now + TickStep <= MaxTime
  /\ now' = now + TickStep
  /\ UNCHANGED <<cache, request_cache, usage, pc, call, response, result,
                 sent, seen, callTime, upstream, served, last, pure, legacy>>

Next ==
  \/ \E c \in Callers, r \in Requests : MakeRequest(c, r)
  \/ \E c \in Callers, o \in Outcomes : UpstreamAnswers(c, o)
  \/ \E c \in Callers : CallerReturns(c)
  \/ clear_cache
  \/ Tick

\* Any number of threads share the client.
Spec == Init /\ [][Next]_vars

\* One call at a time: no call or clear starts before the previous call has
\* returned to its caller.
NoCallInProgress == \A d \in Callers : pc[d] = "idle"

SeqNext ==
  \/ \E c \in Callers, r \in Requests : NoCallInProgress /\ MakeRequest(c, r)
  \/ \E c \in Callers, o \in Outcomes : UpstreamAnswers(c, o)
  \/ \E c \in Callers : CallerReturns(c)
  \/ NoCallInProgress /\ clear_cache
  \/ Tick

SeqSpec == Init /\ [][SeqNext]_vars

(***************************************************************************)
(* _make_cache_key applied to two requests.  A params dict holds at most   *)
(* MaxParams items; names and values are texts that may hold the           *)
(* characters the key is assembled with.                                   *)
(***************************************************************************)
KeyEndpoints == {<<"/", "s">>, <<"/", "o">>}
KeyNames == {<<"a">>, <<"b">>}
KeyValues == {<<"1">>, <<"2">>, <<"1", "&", "b", "=", "2">>}

Dicts ==
  UNION {{d \in [1..n -> KeyNames \X KeyValues] :
            \A i, j \in 1..n : i # j => d[i][1] # d[j][1]} : n \in 0..MaxParams}

KeyRequests == [endpoint : KeyEndpoints, params : Dicts]

KeyInit ==
  /\ ClientInit
  /\ input \in [kind : {"keys"}, a : KeyRequests, b : KeyRequests]
  /\ output = NoOutput

MakeCacheKeys ==
  /\ input.kind = "keys"
  /\ output = NoOutput
  /\ output' = [kind |-> "keys",
                 a |-> make_cache_key(input.a.endpoint, input.a.params),
                 b |-> make_cache_key(input.b.endpoint, input.b.params)]
  /\ UNCHANGED <<client, legacy, input>>

KeySpec == KeyInit /\ [][MakeCacheKeys]_vars

Items(params) == {params[i] : i \in 1..Len(params)}

\* C6: two requests get the same key exactly when they have the same
\* endpoint and the same parameter name/value pairs, in whatever order the
\* pairs were inserted.
C6_KeyIdentifiesRequest ==
  output.kind = "keys" =>
    ((output.a = output.b) <=>
       (/\ input.a.endpoint = input.b.endpoint
        /\ Items(input.a.params) = Items(input.b.params)))

(***************************************************************************)
(* OddsService: best and worst of a list of bookmaker quotes.  A quote is  *)
(* the dict compare_bookmaker_odds builds; its price may be missing.       *)
(* Prices are American odds (never zero).                                  *)
(***************************************************************************)
Prices == {-110, -105, 120, 150}

\* Lines 397-399: the quote under inspection replaces the best one so far.
IsBetterPriceMut(price, best_price) ==
  \/ (price > 0 /\ best_price > 0 /\ price > best_price)
  \/ (price < 0 /\ best_price < 0 /\ price < best_price)
  \/ (price > 0 /\ best_price < 0)

IsBetterPrice(price, best_price) ==
  \/ (price > 0 /\ best_price > 0 /\ price > best_price)
  \/ (price < 0 /\ best_price < 0 /\ price > best_price)
  \/ (price > 0 /\ best_price < 0)

\* Lines 422-424: the quote under inspection replaces the worst one so far.
IsWorsePriceMut(price, worst_price) ==
  \/ (price > 0 /\ worst_price > 0 /\ price < worst_price)
  \/ (price < 0 /\ worst_price < 0 /\ price < worst_price)

IsWorsePrice(price, worst_price) ==
  \/ (price > 0 /\ worst_price > 0 /\ price < worst_price)
  \/ (price < 0 /\ worst_price < 0 /\ price < worst_price)
  \/ (price < 0 /\ worst_price > 0)

\* The loop of _find_best_odds over bookmaker_odds[i..], with the best quote
\* found so far.
RECURSIVE BestFrom(_, _, _)
BestFrom(bookmaker_odds, i, best) ==
  IF i > Len(bookmaker_odds) THEN best
  ELSE LET odds == bookmaker_odds[i]
           price == odds.price
       IN IF price = None THEN BestFrom(bookmaker_odds, i + 1, best)
          ELSE IF best = None THEN BestFrom(bookmaker_odds, i + 1, Some(odds))
          ELSE IF IsBetterPrice(price[1], best[1].price[1])
               THEN BestFrom(bookmaker_odds, i + 1, Some(odds))
               ELSE BestFrom(bookmaker_odds, i + 1, best)

find_best_odds(bookmaker_odds) ==
  IF bookmaker_odds = <<>> THEN None
  ELSE BestFrom(bookmaker_odds, 1, None)

RECURSIVE WorstFrom(_, _, _)
WorstFrom(bookmaker_odds, i, worst) ==
  IF i > Len(bookmaker_odds) THEN worst
  ELSE LET odds == bookmaker_odds[i]
           price == odds.price
       IN IF price = None THEN WorstFrom(bookmaker_odds, i + 1, worst)
          ELSE IF worst = None THEN WorstFrom(bookmaker_odds, i + 1, Some(odds))
          ELSE IF IsWorsePrice(price[1], worst[1].price[1])
               THEN WorstFrom(bookmaker_odds, i + 1, Some(odds))
               ELSE WorstFrom(bookmaker_odds, i + 1, worst)

find_worst_odds(bookmaker_odds) ==
  IF bookmaker_odds = <<>> THEN None
  ELSE WorstFrom(bookmaker_odds, 1, None)

Abs(x) == IF x < 0 THEN -x ELSE x

calculate_odds_range_mut(best, worst) ==
  IF best = None \/ worst = None THEN None
  ELSE IF best[1].price = None \/ worst[1].price = None THEN None
  ELSE Some(worst[1].price[1] - best[1].price[1])

calculate_odds_range(best, worst) ==
  IF best = None \/ worst = None THEN None
  ELSE IF best[1].price = None \/ worst[1].price = None THEN None
  ELSE Some(Abs(best[1].price[1] - worst[1].price[1]))

Quote(bookmaker_key, price, point, name) ==
  [bookmaker_key |-> bookmaker_key, price |-> price, point |-> point,
   name |-> name]

QuoteLists ==
  UNION {{[i \in 1..n |-> Quote(i, prices[i], None, <<>>)] :
            prices \in [1..n -> {None} \cup {Some(p) : p \in Prices}]} :
         n \in 0..MaxQuotes}

OddsInit ==
  /\ ClientInit
  /\ input \in [kind : {"odds"}, bookmaker_odds : QuoteLists]
  /\ output = [kind |-> "odds", done |-> {}, best |-> None, worst |-> None]

FindBestOdds ==
  /\ input.kind = "odds"
  /\ "best" \notin output.done
  /\ output' = [output EXCEPT !.done = @ \cup {"best"},
                               !.best = find_best_odds(input.bookmaker_odds)]
  /\ UNCHANGED <<client, legacy, input>>

FindWorstOdds ==
  /\ input.kind = "odds"
  /\ "worst" \notin output.done
  /\ output' = [output EXCEPT !.done = @ \cup {"worst"},
                               !.worst = find_worst_odds(input.bookmaker_odds)]
  /\ UNCHANGED <<client, legacy, input>>

OddsNext == FindBestOdds \/ FindWorstOdds

OddsSpec == OddsInit /\ [][OddsNext]_vars

\* The American-odds order of the specification.
StrictlyBetter(p, q) ==
  \/ (p > 0 /\ q > 0 /\ p > q)
  \/ (p < 0 /\ q < 0 /\ Abs(p) < Abs(q))
  \/ (p > 0 /\ q < 0)

Priced(bookmaker_odds) ==
  {i \in 1..Len(bookmaker_odds) : bookmaker_odds[i].price # None}

\* C7: _find_best_odds skips the quotes without a price and returns a quote
\* of the list that no priced quote beats (higher positive is better, a
\* negative closer to zero is better, positive beats negative); it returns
\* None only when no quote has a price.
C7_BestOdds ==
  (input.kind = "odds" /\ "best" \in output.done) =>
    LET list == input.bookmaker_odds
    IN IF Priced(list) = {} THEN output.best = None
       ELSE /\ output.best # None
            /\ \E i \in Priced(list) : output.best[1] = list[i]
            /\ \A i \in Priced(list) :
                  ~StrictlyBetter(list[i].price[1], output.best[1].price[1])

C7_Witness ==
  /\ input.kind = "odds"
  /\ "best" \in output.done
  /\ output.best # None
  /\ output.best[1].price = Some(-105)
  /\ \E i \in 1..Len(input.bookmaker_odds) : input.bookmaker_odds[i].price = None
  /\ \E i \in 1..Len(input.bookmaker_odds) :
        input.bookmaker_odds[i].price = Some(-110)

\* C8: _find_worst_odds skips the quotes without a price and returns a quote
\* of the list than which no priced quote is worse (lower positive is worse,
\* more negative is worse, negative is worse than positive).
C8_WorstOdds ==
  (input.kind = "odds" /\ "worst" \in output.done) =>
    LET list == input.bookmaker_odds
    IN IF Priced(list) = {} THEN output.worst = None
       ELSE /\ output.worst # None
            /\ \E i \in Priced(list) : output.worst[1] = list[i]
            /\ \A i \in Priced(list) :
                  ~StrictlyBetter(output.worst[1].price[1], list[i].price[1])

C8_Witness ==
  /\ input.kind = "odds"
  /\ "worst" \in output.done
  /\ output.worst # None
  /\ output.worst[1].price = Some(-110)
  /\ \E i \in 1..Len(input.bookmaker_odds) : input.bookmaker_odds[i].price = None
  /\ \E i \in 1..Len(input.bookmaker_odds) :
        input.bookmaker_odds[i].price = Some(120)

(***************************************************************************)
(* OddsService.compare_bookmaker_odds on the event that                    *)
(* client.get_event_odds returned.  A point is a float held in             *)
(* thousandths.  A bet_details dict is a record with the set of keys it    *)
(* holds; team names are abbreviated ("Kc", "Lv").                         *)
(***************************************************************************)
Get(d, key, default) == IF key \in d.keys THEN d[key] ELSE default

Truthy(point) == point # None /\ point[1] # 0

Answer(raised, value) == [raised |-> raised, value |-> value]

\* _outcome_matches_bet: it raises AttributeError when the dict holds None
\* for team or side (None has no lower()), else it says whether the outcome
\* matches.
outcome_matches_bet(outcome, bet_details) ==
  LET bet_type == Get(bet_details, "bet_type", None)
      team == Get(bet_details, "team", Some(<<>>))
      side == Get(bet_details, "side", Some(<<>>))
      point == Get(bet_details, "point", None)
  IN IF team = None \/ side = None THEN Answer(TRUE, FALSE)
     ELSE IF bet_type = Some("h2h")
     THEN Answer(FALSE, Contains(Lower(outcome.name), Lower(team[1])))
     ELSE IF bet_type = Some("spreads")
     THEN Answer(FALSE,
                 /\ Contains(Lower(outcome.name), Lower(team[1]))
                 /\ Truthy(point)
                 /\ Truthy(outcome.point)
                 /\ Abs(outcome.point[1] - point[1]) < 100)
     ELSE IF bet_type = Some("totals")
     THEN Answer(FALSE,
                 /\ Lower(outcome.name) = Lower(side[1])
                 /\ Truthy(point)
                 /\ Truthy(outcome.point)
                 /\ Abs(outcome.point[1] - point[1]) < 100)
     ELSE Answer(FALSE, FALSE)

\* The loops of _extract_odds_for_bet from outcome j of market i on: the
\* first matching outcome of a market of the bet type, None, or the
\* exception of the matcher.
RECURSIVE ExtractFrom(_, _, _, _, _)
ExtractFrom(bookmaker, bet_type, bet_details, i, j) ==
  IF i > Len(bookmaker.markets) THEN [raised |-> FALSE, odds_info |-> None]
  ELSE LET market == bookmaker.markets[i]
       IN IF market.key # bet_type \/ j > Len(market.outcomes)
          THEN ExtractFrom(bookmaker, bet_type, bet_details, i + 1, 1)
          ELSE LET outcome == market.outcomes[j]
                   m == outcome_matches_bet(outcome, bet_details)
               IN IF m.raised THEN [raised |-> TRUE, odds_info |-> None]
                  ELSE IF m.value
                  THEN [raised |-> FALSE,
                        odds_info |-> Some(Quote(bookmaker.key,
                                                 Some(outcome.price),
                                                 outcome.point, outcome.name))]
                  ELSE ExtractFrom(bookmaker, bet_type, bet_details, i, j + 1)

extract_odds_for_bet(bookmaker, bet_type, bet_details) ==
  ExtractFrom(bookmaker, bet_type, bet_details, 1, 1)

\* Lines 135-149: the quotes of bookmakers[i..] appended to bookmaker_odds.
RECURSIVE CollectFrom(_, _, _, _, _)
CollectFrom(bookmakers, bet_type, bet_details, i, bookmaker_odds) ==
  IF i > Len(bookmakers)
  THEN [raised |-> FALSE, bookmaker_odds |-> bookmaker_odds]
  ELSE LET e == extract_odds_for_bet(bookmakers[i], bet_type, bet_details)
       IN IF e.raised THEN [raised |-> TRUE, bookmaker_odds |-> <<>>]
          ELSE CollectFrom(bookmakers, bet_type, bet_details, i + 1,
                           IF e.odds_info # None
                           THEN Append(bookmaker_odds, e.odds_info[1])
                           ELSE bookmaker_odds)

\* Lines 134-168 of compare_bookmaker_odds.
compare_bookmaker_odds(event, bet_type, bet_details) ==
  LET collected == CollectFrom(event.bookmakers, bet_type, bet_details, 1, <<>>)
      bookmaker_odds == collected.bookmaker_odds
      best_odds == find_best_odds(bookmaker_odds)
      worst_odds == find_worst_odds(bookmaker_odds)
      odds_range == calculate_odds_range(best_odds, worst_odds)
  IN IF collected.raised
     THEN [kind |-> "raised", exception |-> "AttributeError"]
     ELSE [kind |-> "BookmakerComparison",
           event_id |-> event.id,
           bet_type |-> bet_type,
           bookmaker_odds |-> bookmaker_odds,
           best_odds |-> best_odds,
           worst_odds |-> worst_odds,
           odds_range |-> odds_range]

Kc == <<"K", "c">>
Lv == <<"L", "v">>

\* A bookmaker with the markets named in keys, each quoting Kc at the given
\* price and line and Lv at the opposite line.
Bookmaker(key, keys, price, point) ==
  [key |-> key,
   markets |-> [i \in 1..Len(keys) |->
      [key |-> keys[i],
       outcomes |-> << [name |-> Kc, price |-> price, point |-> point],
                       [name |-> Lv, price |-> -110,
                        point |-> IF point = None THEN None
                                  ELSE Some(0 - point[1])] >>]]]

BookmakerPool ==
  {Bookmaker(key, keys, price, point) :
     key \in {"draftkings"},
     keys \in {<<"h2h">>, <<"totals", "spreads">>},
     price \in Prices,
     point \in {None, Some(3500), Some(-3500)}}

\* The events with n bookmakers.
Events(n) ==
  {[id |-> "e1", home_team |-> Kc, away_team |-> Lv, bookmakers |-> b] :
     b \in [1..n -> BookmakerPool]}

BetDetails ==
  { [keys |-> {"bet_type", "team"}, bet_type |-> Some("h2h"),
     team |-> Some(<<"k", "c">>), side |-> None, point |-> None],
    [keys |-> {"bet_type", "team", "side"}, bet_type |-> Some("h2h"),
     team |-> Some(<<"k", "c">>), side |-> None, point |-> None],
    [keys |-> {"bet_type", "team", "side", "point"}, bet_type |-> Some("spreads"),
     team |-> Some(Kc), side |-> Some(<<"a", "w", "a", "y">>),
     point |-> Some(3500)],
    [keys |-> {"bet_type", "team", "side", "point"}, bet_type |-> Some("spreads"),
     team |-> Some(Lv), side |-> Some(<<"h", "o", "m", "e">>),
     point |-> Some(3500)] }

CompareInit ==
  /\ ClientInit
  /\ \E n \in 0..MaxBookmakers :
       input \in [kind : {"compare"}, event : Events(n),
                  bet_details : BetDetails]
  /\ output = NoOutput

CompareBookmakerOdds ==
  /\ input.kind = "compare"
  /\ output = NoOutput
  /\ output' = compare_bookmaker_odds(input.event, input.bet_details.bet_type[1],
                                       input.bet_details)
  /\ UNCHANGED <<client, legacy, input>>

CompareSpec == CompareInit /\ [][CompareBookmakerOdds]_vars

\* C9: in a returned BookmakerComparison, odds_range is
\* |best_odds.price - worst_odds.price| when both quotes are present and None
\* when either is absent.
C9_OddsRange ==
  output.kind = "BookmakerComparison" =>
    IF output.best_odds # None /\ output.worst_odds # None
    THEN output.odds_range =
           Some(Abs(output.best_odds[1].price[1] - output.worst_odds[1].price[1]))
    ELSE output.odds_range = None

C9_Witness ==
  /\ output.kind = "BookmakerComparison"
  /\ output.best_odds # None
  /\ output.worst_odds # None
  /\ output.odds_range = Some(260)

(***************************************************************************)
(* OddsService._parse_parlay_leg.  A leg text is a run of at most          *)
(* MaxTokens tokens.  float() of the matched number is held in             *)
(* thousandths.                                                            *)
(***************************************************************************)
Tokens ==
  { <<"K">>, <<" ">>, <<"+">>, <<"-">>, <<"0">>, <<"7">>, <<".">>,
    <<"M", "L">>, <<"m", "l">>, <<"M", "l">>, <<"O", "v", "e", "r">>,
    <<"u", "n", "d", "e", "r">> }

RECURSIVE Concat(_)
Concat(parts) == IF parts = <<>> THEN <<>> ELSE Head(parts) \o Concat(Tail(parts))

\* The leg text spelled by a run of tokens.
LegText(ts) == Concat(ts)

\* The end of the run of digits that starts at i (i - 1 when there is none).
RECURSIVE DigitsEnd(_, _)
DigitsEnd(text, i) ==
  IF i <= Len(text) /\ IsDigit(text[i]) THEN DigitsEnd(text, i + 1) ELSE i - 1

RECURSIVE SpacesEnd(_, _)
SpacesEnd(text, i) ==
  IF i <= Len(text) /\ IsSpace(text[i]) THEN SpacesEnd(text, i + 1) ELSE i - 1

RECURSIVE IntOf(_)
IntOf(digits) ==
  IF digits = <<>> THEN 0
  ELSE 10 * IntOf(SubSeq(digits, 1, Len(digits) - 1))
         + (Ord(digits[Len(digits)]) - 48)

\* The first three decimals of a fraction, in thousandths.
Thousandths(digits) ==
  LET d == [i \in 1..3 |-> IF i <= Len(digits) THEN digits[i] ELSE "0"]
  IN IntOf(d)

\* \d+\.?\d* matched at i (a digit): the last index of the match and the
\* value float() gives it.
Number(text, i) ==
  LET e1 == DigitsEnd(text, i)
      dot == e1 + 1 <= Len(text) /\ text[e1 + 1] = "."
      e2 == IF dot THEN DigitsEnd(text, e1 + 2) ELSE e1
  IN [last |-> e2,
      value |-> 1000 * IntOf(SubSeq(text, i, e1))
                  + (IF dot THEN Thousandths(SubSeq(text, e1 + 2, e2)) ELSE 0)]

\* re.search(r'(.+?)\s*([+-]\d+\.?\d*)', text): the match starts at the
\* first character, group 1 is the shortest prefix that a sign and a digit
\* follow after optional blanks, i.e. it ends before the first sign (not at
\* the first character) that a digit follows.
SignAt(text, j) ==
  /\ 2 <= j
  /\ j + 1 <= Len(text)
  /\ IsSign(text[j])
  /\ IsDigit(text[j + 1])

SpreadMatch(text) ==
  IF \E j \in 1..Len(text) : SignAt(text, j)
  THEN LET j == CHOOSE k \in 1..Len(text) :
                   SignAt(text, k) /\ \A m \in 1..(k - 1) : ~SignAt(text, m)
           n == Number(text, j + 1)
       IN [matched |-> TRUE,
           group1 |-> RStrip(SubSeq(text, 1, j - 1)),
           point |-> IF text[j] = "-" THEN 0 - n.value ELSE n.value]
  ELSE [matched |-> FALSE, group1 |-> <<>>, point |-> 0]

\* re.search(r'(over|under)\s*(\d+\.?\d*)', text): the first place where
\* one of the words stands with a digit after optional blanks.
WordAt(text, i, word) ==
  /\ StartsWith(text, i, word)
  /\ LET d == SpacesEnd(text, i + Len(word)) + 1
     IN d <= Len(text) /\ IsDigit(text[d])

over == <<"o", "v", "e", "r">>
under == <<"u", "n", "d", "e", "r">>

TotalAt(text, i) == WordAt(text, i, over) \/ WordAt(text, i, under)

TotalMatch(text) ==
  IF \E i \in 1..Len(text) : TotalAt(text, i)
  THEN LET i == CHOOSE k \in 1..Len(text) :
                   TotalAt(text, k) /\ \A m \in 1..(k - 1) : ~TotalAt(text, m)
           word == IF WordAt(text, i, over) THEN over ELSE under
           n == Number(text, SpacesEnd(text, i + Len(word)) + 1)
       IN [matched |-> TRUE, side |-> word, point |-> n.value]
  ELSE [matched |-> FALSE, side |-> <<>>, point |-> 0]

home == <<"h", "o", "m", "e">>
away == <<"a", "w", "a", "y">>

\* Line 316: 'home' if point < 0 else 'away'
SideOfPoint(point) == IF point < 0 THEN home ELSE away

\* The dict _parse_parlay_leg returns, or None.
parse_parlay_leg(leg_text_arg) ==
  LET leg_text == Strip(leg_text_arg)
      spread_match == SpreadMatch(leg_text)
      total_match == TotalMatch(Lower(leg_text))
  IN IF Contains(Upper(leg_text), <<"M", "L">>)
     THEN Some([keys |-> {"bet_type", "team", "side"},
                bet_type |-> Some("h2h"),
                team |-> Some(Strip(Remove(Remove(leg_text, <<"M", "L">>),
                                           <<"m", "l">>))),
                side |-> None,
                point |-> None])
     ELSE IF spread_match.matched
     THEN Some([keys |-> {"bet_type", "team", "side", "point"},
                bet_type |-> Some("spreads"),
                team |-> Some(Strip(spread_match.group1)),
                side |-> Some(SideOfPoint(spread_match.point)),
                point |-> Some(Abs(spread_match.point))])
     ELSE IF total_match.matched
     THEN Some([keys |-> {"bet_type", "team", "side", "point"},
                bet_type |-> Some("totals"),
                team |-> None,
                side |-> Some(total_match.side),
                point |-> Some(total_match.point)])
     ELSE None

ParseInit ==
  /\ ClientInit
  /\ \E n \in 0..MaxTokens : \E ts \in [1..n -> Tokens] :
       input = [kind |-> "leg", leg_text |-> LegText(ts)]
  /\ output = NoOutput

ParseParlayLeg ==
  /\ input.kind = "leg"
  /\ output = NoOutput
  /\ output' = [kind |-> "parsed", leg |-> parse_parlay_leg(input.leg_text)]
  /\ UNCHANGED <<client, legacy, input>>

ParseSpec == ParseInit /\ [][ParseParlayLeg]_vars

\* The text without the occurrences of the token, whatever their letter
\* case, from left to right.
RECURSIVE RemoveAnyCase(_, _)
RemoveAnyCase(text, token) ==
  IF text = <<>> THEN <<>>
  ELSE IF Len(token) <= Len(text) /\ Upper(SubSeq(text, 1, Len(token))) = token
  THEN RemoveAnyCase(SubSeq(text, Len(token) + 1, Len(text)), token)
  ELSE <<Head(text)>> \o RemoveAnyCase(Tail(text), token)

\* C11: a text that contains the token ML in any letter case parses to a
\* moneyline leg whose team is the text with the ML token removed and
\* trimmed, also when the text holds a signed number or an over/under total.
C11_MoneylineLeg ==
  (output.kind = "parsed" /\ Contains(Upper(input.leg_text), <<"M", "L">>)) =>
    /\ output.leg # None
    /\ output.leg[1].bet_type = Some("h2h")
    /\ output.leg[1].team =
         Some(Strip(RemoveAnyCase(input.leg_text, <<"M", "L">>)))

\* A text <team-phrase><sign><number>: a phrase without sign that is not
\* blank, a sign, and digits with an optional fraction.
IsNumber(text) ==
  /\ text # <<>>
  /\ IsDigit(text[1])
  /\ Number(text, 1).last = Len(text)

SpreadForm(text, j) ==
  /\ 2 <= j
  /\ j < Len(text)
  /\ IsSign(text[j])
  /\ \A i \in 1..(j - 1) : ~IsSign(text[i])
  /\ Strip(SubSeq(text, 1, j - 1)) # <<>>
  /\ IsNumber(SubSeq(text, j + 1, Len(text)))

\* C10: a text <team-phrase><sign><number> without the ML token parses to a
\* spread leg: team is the phrase before the sign, side is home for '-' and
\* away for '+', point is the absolute value of the number.
C10_SpreadLeg ==
  (output.kind = "parsed" /\ ~Contains(Upper(input.leg_text), <<"M", "L">>)) =>
    \A j \in 1..Len(input.leg_text) :
       SpreadForm(input.leg_text, j) =>
         /\ output.leg # None
         /\ output.leg[1].bet_type = Some("spreads")
         /\ output.leg[1].team = Some(Strip(SubSeq(input.leg_text, 1, j - 1)))
         /\ output.leg[1].side =
              Some(IF input.leg_text[j] = "-" THEN home ELSE away)
         /\ output.leg[1].point =
              Some(Number(input.leg_text, j + 1).value)

(***************************************************************************)
(* Properties of OddsApiClient._make_request.                              *)
(***************************************************************************)

\* C1: callers that request the same uncached key at the same time collapse
\* into one upstream request: no two calls for one key are blocked in
\* requests.get together, and overlapping calls for one key that have both
\* returned hold the same result.
C1_RequestCollapsing ==
  \A c1, c2 \in Callers :
     (c1 # c2 /\ pc[c1] # "idle" /\ pc[c2] # "idle"
        /\ KeyOf(call[c1]) = KeyOf(call[c2]))
     => /\ ~(pc[c1] = "waiting" /\ pc[c2] = "waiting")
        /\ sent[c1] + sent[c2] <= 1

\* The entry a returned call found in _cache when it started.
SeenFresh(c) ==
  /\ pc[c] = "returned"
  /\ seen[c] # None
  /\ callTime[c] - seen[c][1].timestamp < seen[c][1].ttl

SeenExpired(c) ==
  /\ pc[c] = "returned"
  /\ seen[c] # None
  /\ callTime[c] - seen[c][1].timestamp >= seen[c][1].ttl

\* C2: a request made at t < t0 + T for a key fetched at t0 with TTL T (and
\* not cleared since) returns the payload stored at t0 and makes no upstream
\* request.
C2_FreshEntryServed ==
  \A c \in Callers :
     SeenFresh(c) => /\ result[c] = Hit(seen[c][1].data)
                     /\ sent[c] = 0

C2_Witness ==
  \E c \in Callers : SeenFresh(c) /\ callTime[c] > seen[c][1].timestamp

\* C3: a request made at t >= t0 + T for a key fetched at t0 with TTL T makes
\* one upstream request and never returns the payload stored at t0.
C3_ExpiredEntryRefetched ==
  \A c \in Callers :
     SeenExpired(c) => /\ sent[c] = 1
                       /\ result[c] # Hit(seen[c][1].data)

\* The step in which requests.get of caller c ends in a failure.
FailingStep(c) ==
  /\ pc[c] = "waiting"
  /\ pc'[c] = "returned"
  /\ ~(response'[c].kind = "response"
        /\ 200 <= response'[c].status_code /\ response'[c].status_code < 300)

\* The step in which caller c starts the first request for its key after a
\* failed one.
RetryStep(c) ==
  /\ pc[c] = "idle"
  /\ pc'[c] # "idle"
  /\ last[KeyOf(call'[c])] = "failed"

\* C4: a failed upstream request stores nothing for its key (neither in
\* _cache nor in _request_cache), raises to the caller, and the next request
\* for the key goes upstream again.
C4_NoNegativeCaching ==
  [][\A c \in Callers :
       /\ FailingStep(c) =>
             /\ cache' = cache
             /\ request_cache' = request_cache
             /\ KeyOf(call[c]) \notin DOMAIN cache'
             /\ KeyOf(call[c]) \notin DOMAIN request_cache'
             /\ result'[c].kind = "HTTPException"
       /\ RetryStep(c) =>
             /\ pc'[c] = "waiting"
             /\ sent'[c] = 1
             /\ upstream'[KeyOf(call'[c])] = upstream[KeyOf(call'[c])] + 1
    ]_vars

C4_Witness ==
  \E c \in Callers :
     /\ pc[c] = "waiting"
     /\ last[KeyOf(call[c])] = "failed"
     /\ upstream[KeyOf(call[c])] >= 2

\* C5: HTTP 429 is raised with status 429, HTTP 401 with status 401, any
\* other failing status or a network failure as an error that carries its
\* cause; the call made exactly one upstream request.
C5_ErrorMapping ==
  \A c \in Callers :
     (pc[c] = "returned" /\ response[c].kind # "none" /\ ~Passes(response[c]))
     => /\ sent[c] = 1
        /\ result[c].kind = "HTTPException"
        /\ response[c].kind = "response" /\ response[c].status_code = 429
             => result[c].status_code = 429
        /\ response[c].kind = "response" /\ response[c].status_code = 401
             => result[c].status_code = 401
        /\ response[c].kind = "response" /\ response[c].status_code \notin {429, 401}
             => /\ result[c].status_code = 500
                /\ result[c].detail =
                     <<"API request failed", "HTTPError", response[c].status_code>>
        /\ response[c].kind = "network_error"
             => /\ result[c].status_code = 500
                /\ result[c].detail = <<"API request failed", "ConnectionError">>

C5_Witness ==
  \E c \in Callers :
     /\ pc[c] = "returned"
     /\ response[c].kind = "response"
     /\ response[c].status_code = 503

(***************************************************************************)
(* The legacy OddsService of odds_service.py: parse_parlay_leg.            *)
(***************************************************************************)

\* str.split(): the runs of non-blank characters.
RECURSIVE Split(_)
Split(text) ==
  LET t == LStrip(text)
  IN IF t = <<>> THEN <<>>
     ELSE LET n == CHOOSE k \in 1..Len(t) :
                     /\ \A i \in 1..k : ~IsSpace(t[i])
                     /\ (k = Len(t) \/ IsSpace(t[k + 1]))
          IN <<SubSeq(t, 1, n)>> \o Split(SubSeq(t, n + 1, Len(t)))

\* float(part) for the characters of the model: an optional sign, digits
\* with at most one point and at least one digit.  None stands for
\* ValueError; the value is in thousandths.
FloatOf(part) ==
  LET signed == part # <<>> /\ IsSign(part[1])
      body == IF signed THEN Tail(part) ELSE part
      dots == {i \in 1..Len(body) : body[i] = "."}
      valid == /\ \A i \in 1..Len(body) : IsDigit(body[i]) \/ body[i] = "."
               /\ Cardinality(dots) <= 1
               /\ \E i \in 1..Len(body) : IsDigit(body[i])
      d == IF dots = {} THEN Len(body) + 1 ELSE CHOOSE i \in dots : TRUE
      magnitude == 1000 * IntOf(SubSeq(body, 1, d - 1))
                     + Thousandths(SubSeq(body, d + 1, Len(body)))
  IN IF ~valid THEN None
     ELSE Some(IF signed /\ part[1] = "-" THEN 0 - magnitude ELSE magnitude)

\* Lines 201-213: the first part that starts with a sign, holds a digit and
\* converts; None when there is none.
RECURSIVE SpreadPart(_, _)
SpreadPart(parts, i) ==
  IF i > Len(parts) THEN None
  ELSE IF /\ IsSign(parts[i][1])
          /\ \E k \in 1..Len(parts[i]) : IsDigit(parts[i][k])
          /\ FloatOf(parts[i]) # None
  THEN Some([team |-> Join(<<" ">>, SubSeq(parts, 1, i - 1)),
             value |-> FloatOf(parts[i])[1]])
  ELSE SpreadPart(parts, i + 1)

\* Lines 219-229: the first part that converts; None when there is none.
RECURSIVE TotalPart(_, _)
TotalPart(parts, i) ==
  IF i > Len(parts) THEN None
  ELSE IF FloatOf(parts[i]) # None THEN FloatOf(parts[i])
  ELSE TotalPart(parts, i + 1)

\* The dict parse_parlay_leg returns.  No statement of the function raises
\* on a str: the ValueError of float() is caught at lines 212 and 228.
legacy_parse_parlay_leg(leg_text_arg) ==
  LET leg_text == Strip(leg_text_arg)
      parts == Split(leg_text)
      spread == SpreadPart(parts, 1)
      has_over == Contains(Upper(leg_text), <<"O", "V", "E", "R">>)
      has_under == Contains(Upper(leg_text), <<"U", "N", "D", "E", "R">>)
      total == TotalPart(parts, 1)
  IN IF Contains(Upper(leg_text), <<"M", "L">>)
     THEN [keys |-> {"bet_type", "team", "original_text"},
           bet_type |-> "moneyline",
           team |-> Some(Strip(Remove(Remove(leg_text, <<"M", "L">>),
                                      <<"m", "l">>))),
           side |-> None, value |-> None, original_text |-> leg_text]
     ELSE IF spread # None
     THEN [keys |-> {"bet_type", "team", "value", "original_text"},
           bet_type |-> "spread",
           team |-> Some(spread[1].team),
           side |-> None, value |-> Some(spread[1].value),
           original_text |-> leg_text]
     ELSE IF (has_over \/ has_under) /\ total # None
     THEN [keys |-> {"bet_type", "side", "value", "original_text"},
           bet_type |-> "total",
           team |-> None,
           side |-> Some(IF has_over THEN over ELSE under),
           value |-> total, original_text |-> leg_text]
     ELSE [keys |-> {"bet_type", "original_text"},
           bet_type |-> "unknown",
           team |-> None, side |-> None, value |-> None,
           original_text |-> leg_text]

LegacyParseInit ==
  /\ ClientInit
  /\ \E n \in 0..MaxTokens : \E ts \in [1..n -> Tokens] :
       input = [kind |-> "legacy_leg", leg_text |-> LegText(ts)]
  /\ output = NoOutput

LegacyParseParlayLeg ==
  /\ input.kind = "legacy_leg"
  /\ output = NoOutput
  /\ output' = [kind |-> "legacy_parsed",
                 leg |-> legacy_parse_parlay_leg(input.leg_text)]
  /\ UNCHANGED <<client, legacy, input>>

LegacyParseSpec == LegacyParseInit /\ [][LegacyParseParlayLeg]_vars

\* The rules of the leg parser on a text: the ML token in any letter case;
\* a sign with a digit next to it after a team phrase; the word over or
\* under, in any letter case, with a number after it.
MoneylineRule(text) == Contains(Upper(text), <<"M", "L">>)
SpreadRule(text) == \E j \in 1..Len(text) : SignAt(text, j)
TotalRule(text) == \E i \in 1..Len(text) : TotalAt(Lower(text), i)

\* C12: the leg parser returns for every text, and a text that matches none
\* of the moneyline, spread and total rules gets a leg with bet_type unknown
\* whose original_text is the input text, character for character.
C12_UnknownLeg ==
  output.kind = "legacy_parsed" =>
    ((~MoneylineRule(input.leg_text) /\ ~SpreadRule(input.leg_text)
        /\ ~TotalRule(input.leg_text)) =>
       /\ output.leg.bet_type = "unknown"
       /\ output.leg.original_text = input.leg_text)

(***************************************************************************)
(* OddsService.compare_parlay_leg_odds on the events the provider returns  *)
(* for the sport (both fetches succeed; get_event_odds returns the event   *)
(* that was found).                                                        *)
(***************************************************************************)

\* Lines 91-99 of find_events_by_team: team_name.lower() raises
\* AttributeError when team_name is None.
find_events_by_team(events, team_name) ==
  IF team_name = None
  THEN [raised |-> TRUE, events |-> <<>>]
  ELSE [raised |-> FALSE,
        events |-> SelectSeq(events,
           LAMBDA event :
             \/ Contains(Lower(event.home_team), Lower(team_name[1]))
             \/ Contains(Lower(event.away_team), Lower(team_name[1])))]

\* Lines 210-233: the quote dicts in ParlayLegComparison format.
LegQuote(odds) ==
  [bookmaker_key |-> odds.bookmaker_key, odds |-> odds.price,
   line |-> odds.point]

compare_parlay_leg_odds(leg_description, fetched) ==
  LET parsed_leg == parse_parlay_leg(leg_description)
      found == find_events_by_team(fetched, parsed_leg[1].team)
      event == found.events[1]
      comparison == compare_bookmaker_odds(event, parsed_leg[1].bet_type[1],
                                           parsed_leg[1])
  IN IF parsed_leg = None THEN [kind |-> "None"]
     ELSE IF found.raised THEN [kind |-> "raised", exception |-> "AttributeError"]
     ELSE IF found.events = <<>> THEN [kind |-> "None"]
     ELSE IF comparison.kind = "raised" THEN comparison
     ELSE [kind |-> "ParlayLegComparison",
           bet_description |-> leg_description,
           event_id |-> event.id,
           bookmaker_odds |-> [i \in 1..Len(comparison.bookmaker_odds) |->
                                 LegQuote(comparison.bookmaker_odds[i])],
           best_odds |-> IF comparison.best_odds # None
                         THEN Some(LegQuote(comparison.best_odds[1])) ELSE None,
           worst_odds |-> IF comparison.worst_odds # None
                          THEN Some(LegQuote(comparison.worst_odds[1])) ELSE None,
           odds_range |-> comparison.odds_range]

\* Leg descriptions: a moneyline, two spread legs and a total leg on the
\* event's team, a moneyline leg on a team of no event, and a text no rule
\* matches.
LegDescriptions ==
  { <<"K", "c", " ", "M", "L">>,
    <<"K", "c", " ", "+", "7">>,
    <<"K", "c", " ", "-", "3", ".", "5">>,
    <<"O", "v", "e", "r", " ", "7">>,
    <<"c", "K", " ", "M", "L">>,
    <<"K", "c">> }

FetchedEvents(n) == {<<>>} \cup {<<event>> : event \in Events(n)}

LegCompareInit ==
  /\ ClientInit
  /\ \E n \in 0..MaxBookmakers :
       input \in [kind : {"leg_compare"}, leg_description : LegDescriptions,
                  events : FetchedEvents(n)]
  /\ output = NoOutput

CompareParlayLegOdds ==
  /\ input.kind = "leg_compare"
  /\ output = NoOutput
  /\ output' = [kind |-> "leg_compared",
                 result |-> compare_parlay_leg_odds(input.leg_description,
                                                    input.events)]
  /\ UNCHANGED <<client, legacy, input>>

LegCompareSpec == LegCompareInit /\ [][CompareParlayLegOdds]_vars

\* C13: compare_parlay_leg_odds raises for no leg text and no set of fetched
\* events: it returns None or a comparison (whose bookmaker_odds is empty
\* when no outcome corresponds to the leg).
C13_NeverRaises ==
  output.kind = "leg_compared" =>
    output.result.kind \in {"None", "ParlayLegComparison"}

(***************************************************************************)
(* Properties of the usage snapshot.                                       *)
(***************************************************************************)

\* The step in which caller c records the headers of a 2xx response.
Recorded(c) ==
  /\ pc[c] = "waiting"
  /\ pc'[c] = "returned"
  /\ response'[c].kind = "response"
  /\ response'[c].status_code = 200

FieldAfter(headers, name, before) ==
  IF name \in DOMAIN headers THEN Some(headers[name]) ELSE before

\* C14: recording a response sets each of requests_remaining, requests_used
\* and requests_last_cost whose header is present to the header's value and
\* leaves each field whose header is absent as it was; no other step changes
\* the snapshot.
C14_UsageOverwrite ==
  [][/\ \A c \in Callers :
          Recorded(c) =>
            /\ usage'.requests_remaining =
                 FieldAfter(response'[c].headers, "x-requests-remaining",
                            usage.requests_remaining)
            /\ usage'.requests_used =
                 FieldAfter(response'[c].headers, "x-requests-used",
                            usage.requests_used)
            /\ usage'.requests_last_cost =
                 FieldAfter(response'[c].headers, "x-requests-last",
                            usage.requests_last_cost)
     /\ (~\E c \in Callers : Recorded(c)) => usage' = usage]_vars

\* A response with only the remaining header was recorded after one with
\* all three headers: remaining is overwritten, used and last cost are kept.
C14_Witness ==
  /\ usage.requests_remaining = Some(7)
  /\ usage.requests_used = Some(4)
  /\ usage.requests_last_cost = Some(1)

(***************************************************************************)
(* helpers.get_arbitrage_opportunities on the events the service returns.  *)
(* A float that the code computes by division is held as the exact         *)
(* fraction <<numerator, denominator>> (denominator positive).             *)
(***************************************************************************)
DefaultLimit == 3

Frac(n, d) == <<n, d>>
FracAdd(a, b) == <<a[1] * b[2] + b[1] * a[2], a[2] * b[2]>>
FracLess(a, b) == a[1] * b[2] < b[1] * a[2]
FracEq(a, b) == a[1] * b[2] = b[1] * a[2]
\* (1 - total) * 100
ProfitOf(total) == <<100 * (total[2] - total[1]), total[2]>>
\* The fraction times scale, rounded to the nearest integer.
Rounded(a, scale) == (2 * a[1] * scale + a[2]) \div (2 * a[2])

\* Lines 169-176: the (title, price) pairs stored into home_odds and into
\* away_odds, in the order the loops store them.
RECURSIVE OutcomeEntries(_, _, _, _)
OutcomeEntries(event, title, outcomes, side) ==
  IF outcomes = <<>> THEN <<>>
  ELSE LET outcome == Head(outcomes)
           is_home == Contains(outcome.name, event.home_team)
           is_away == ~is_home /\ Contains(outcome.name, event.away_team)
           hit == IF side = "home" THEN is_home ELSE is_away
       IN (IF hit THEN <<[title |-> title, price |-> outcome.price]>> ELSE <<>>)
            \o OutcomeEntries(event, title, Tail(outcomes), side)

RECURSIVE MarketEntries(_, _, _, _)
MarketEntries(event, title, markets, side) ==
  IF markets = <<>> THEN <<>>
  ELSE (IF Head(markets).key = "h2h"
        THEN OutcomeEntries(event, title, Head(markets).outcomes, side)
        ELSE <<>>)
         \o MarketEntries(event, title, Tail(markets), side)

RECURSIVE BookmakerEntries(_, _, _)
BookmakerEntries(event, bookmakers, side) ==
  IF bookmakers = <<>> THEN <<>>
  ELSE MarketEntries(event, Head(bookmakers).title, Head(bookmakers).markets, side)
         \o BookmakerEntries(event, Tail(bookmakers), side)

\* The values of the dict the entries build: a later entry of a title
\* replaces the earlier one.
DictValues(entries) ==
  {entries[i].price : i \in {k \in 1..Len(entries) :
      \A m \in (k + 1)..Len(entries) : entries[m].title # entries[k].title}}

MaxOf(values) == CHOOSE v \in values : \A w \in values : w <= v

\* Lines 186-187: 100 / (best + 100) if best > 0 else 0
implied_prob_mut(best) ==
  IF best > 0 THEN Frac(100, best + 200) ELSE Frac(0, 1)

implied_prob(best) ==
  IF best > 0 THEN Frac(100, best + 100) ELSE Frac(0, 1)

\* Lines 165-198 for one event: the opportunities it adds.
event_opportunities(event) ==
  LET home_odds == DictValues(BookmakerEntries(event, event.bookmakers, "home"))
      away_odds == DictValues(BookmakerEntries(event, event.bookmakers, "away"))
      best_home == MaxOf(home_odds)
      best_away == MaxOf(away_odds)
      total_prob == FracAdd(implied_prob(best_home), implied_prob(best_away))
  IN IF home_odds = {} \/ away_odds = {} THEN <<>>
     ELSE IF ~(best_home > 100 /\ best_away > 100) THEN <<>>
     ELSE IF ~FracLess(total_prob, Frac(95, 100)) THEN <<>>
     ELSE << [game |-> event.id,
              best_home_odds |-> best_home,
              best_away_odds |-> best_away,
              total_implied_probability |-> total_prob,
              potential_profit |-> ProfitOf(total_prob)] >>

RECURSIVE ArbitrageOf(_)
ArbitrageOf(events) ==
  IF events = <<>> THEN <<>>
  ELSE event_opportunities(Head(events)) \o ArbitrageOf(Tail(events))

\* events[:limit] and arbitrage_ops[:limit]
Prefix(seq, limit) == SubSeq(seq, 1, IF Len(seq) < limit THEN Len(seq) ELSE limit)

get_arbitrage_opportunities(events, limit) ==
  Prefix(ArbitrageOf(Prefix(events, limit)), limit)

\* Moneyline prices (American odds) and the events built from them: each
\* bookmaker quotes the home team Kc and the away team Lv.
ArbPrices == {-500, -110, 130, 150, 2000}

ArbBookmaker(title, home_price, away_price) ==
  [title |-> title,
   markets |-> << [key |-> "h2h",
                   outcomes |-> << [name |-> Kc, price |-> home_price],
                                   [name |-> Lv, price |-> away_price] >>] >>]

\* The events with n bookmakers.
ArbEvents(n) ==
  {[id |-> "e1", home_team |-> Kc, away_team |-> Lv,
    bookmakers |-> [i \in 1..n |->
                      ArbBookmaker(i, quotes[i][1], quotes[i][2])]] :
     quotes \in [1..n -> ArbPrices \X ArbPrices]}

ArbInit ==
  /\ ClientInit
  /\ \E n \in 0..MaxBookmakers :
       input \in [kind : {"arbitrage"}, event : ArbEvents(n)]
  /\ output = NoOutput

GetArbitrageOpportunities ==
  /\ input.kind = "arbitrage"
  /\ output = NoOutput
  /\ output' = [kind |-> "arbitrage",
                 ops |-> get_arbitrage_opportunities(<<input.event>>,
                                                     DefaultLimit)]
  /\ UNCHANGED <<client, legacy, input>>

ArbSpec == ArbInit /\ [][GetArbitrageOpportunities]_vars

\* The best price of a side across the bookmakers of the input event, in
\* the American-odds order, and the implied probability of a price.
BestPrice(event, side) ==
  LET prices == {event.bookmakers[i].markets[1].outcomes[side].price :
                   i \in 1..Len(event.bookmakers)}
  IN CHOOSE p \in prices : \A q \in prices : ~StrictlyBetter(q, p)

ImpliedProbability(price) ==
  IF price > 0 THEN Frac(100, price + 100)
  ELSE Frac(Abs(price), Abs(price) + 100)

\* C15: an event with a home and an away moneyline price is reported
\* exactly when the implied probabilities of the best home and best away
\* price sum to less than 0.95, and then potential_profit = (1 - sum) * 100,
\* for positive and negative best prices alike.
C15_ArbitrageScreen ==
  (output.kind = "arbitrage" /\ input.event.bookmakers # <<>>) =>
    LET sum == FracAdd(ImpliedProbability(BestPrice(input.event, 1)),
                       ImpliedProbability(BestPrice(input.event, 2)))
    IN IF FracLess(sum, Frac(95, 100))
       THEN /\ Len(output.ops) = 1
            /\ FracEq(output.ops[1].total_implied_probability, sum)
            /\ FracEq(output.ops[1].potential_profit, ProfitOf(sum))
       ELSE output.ops = <<>>

\* C16: with best home price +150 and best away price +130 the event is
\* flagged, with an implied-probability sum of about 0.8348
\* (100/250 + 100/230) and a potential_profit of about 16.5.
C16_ArbitrageExample ==
  (/\ output.kind = "arbitrage"
   /\ input.event.bookmakers # <<>>
   /\ BestPrice(input.event, 1) = 150
   /\ BestPrice(input.event, 2) = 130) =>
    /\ Len(output.ops) = 1
    /\ Rounded(output.ops[1].total_implied_probability, 10000) = 8348
    /\ Rounded(output.ops[1].potential_profit, 10) = 165

C16_Witness ==
  /\ output.kind = "arbitrage"
  /\ Len(output.ops) = 1
  /\ output.ops[1].best_home_odds = 150
  /\ output.ops[1].best_away_odds = 130

\* C16 as stated: a sum of about 0.4348 and a potential_profit of about 56.5.
C16_AsStated ==
  (/\ output.kind = "arbitrage"
   /\ input.event.bookmakers # <<>>
   /\ BestPrice(input.event, 1) = 150
   /\ BestPrice(input.event, 2) = 130) =>
    /\ Len(output.ops) = 1
    /\ Rounded(output.ops[1].total_implied_probability, 10000) = 4348
    /\ Rounded(output.ops[1].potential_profit, 10) = 565

(***************************************************************************)
(* The legacy OddsService.get_suggestions_for_sport on the games that      *)
(* get_odds_for_sport returns (the provider's dicts; every market has      *)
(* outcomes).                                                              *)
(***************************************************************************)

favorite_mut(outcomes) ==
  outcomes[CHOOSE i \in 1..Len(outcomes) :
             \A j \in 1..Len(outcomes) :
                Abs(outcomes[i].price) >= Abs(outcomes[j].price)]

\* Line 434: min(outcomes, key=lambda x: abs(x['price'])), the first of the
\* outcomes with the least absolute price.
favorite(outcomes) ==
  outcomes[CHOOSE i \in 1..Len(outcomes) :
             /\ \A j \in 1..Len(outcomes) :
                   Abs(outcomes[i].price) <= Abs(outcomes[j].price)
             /\ \A j \in 1..(i - 1) :
                   Abs(outcomes[j].price) > Abs(outcomes[i].price)]

\* Lines 430-448: the suggestion of the first h2h market from market i on.
RECURSIVE MarketSuggestion(_, _, _)
MarketSuggestion(game, bookmaker, i) ==
  IF i > Len(bookmaker.markets) THEN <<>>
  ELSE IF bookmaker.markets[i].key = "h2h"
  THEN << [bet_type |-> "moneyline",
           team |-> favorite(bookmaker.markets[i].outcomes).name,
           current_odds |-> favorite(bookmaker.markets[i].outcomes).price,
           game |-> [home_team |-> game.home_team,
                     away_team |-> game.away_team,
                     commence_time |-> game.commence_time],
           bookmaker |-> bookmaker.title] >>
  ELSE MarketSuggestion(game, bookmaker, i + 1)

\* Lines 423-448: the loop over games[:num_legs].
RECURSIVE SuggestionsOf(_)
SuggestionsOf(games) ==
  IF games = <<>> THEN <<>>
  ELSE (IF Head(games).bookmakers = <<>> THEN <<>>
        ELSE MarketSuggestion(Head(games), Head(games).bookmakers[1], 1))
         \o SuggestionsOf(Tail(games))

get_suggestions_for_sport(games, num_legs) ==
  IF games = <<>>
  THEN [keys |-> {"suggestions", "message", "sport", "fetched_at"},
        suggestions |-> <<>>, num_suggestions |-> None]
  ELSE LET suggestions == SuggestionsOf(Prefix(games, num_legs))
       IN [keys |-> {"suggestions", "num_suggestions", "sport", "strategy",
                     "fetched_at", "requests_remaining"},
           suggestions |-> Prefix(suggestions, num_legs),
           num_suggestions |-> Some(Len(Prefix(suggestions, num_legs)))]

\* The bookmaker lists a game may carry: none, one with an h2h market, one
\* without, one whose h2h market follows another market, and two bookmakers
\* of which only the second or both quote h2h.
MarketOf(key, home_price, away_price) ==
  [key |-> key,
   outcomes |-> << [name |-> Kc, price |-> home_price],
                   [name |-> Lv, price |-> away_price] >>]

BookmakerLists ==
  { <<>>,
    << [title |-> "b1", markets |-> <<MarketOf("h2h", -150, 130)>>] >>,
    << [title |-> "b1", markets |-> <<MarketOf("h2h", 150, -110)>>] >>,
    << [title |-> "b1", markets |-> <<MarketOf("spreads", -105, -110)>>] >>,
    << [title |-> "b1", markets |-> <<MarketOf("spreads", -105, -110),
                                      MarketOf("h2h", 120, -120),
                                      MarketOf("h2h", -105, 150)>>] >>,
    << [title |-> "b1", markets |-> <<MarketOf("spreads", -105, -110)>>],
       [title |-> "b2", markets |-> <<MarketOf("h2h", -150, 130)>>] >>,
    << [title |-> "b1", markets |-> <<MarketOf("h2h", 150, -110)>>],
       [title |-> "b2", markets |-> <<MarketOf("h2h", -105, 130)>>] >> }

\* Games in the provider's order; commence_time tells them apart.
GameLists ==
  UNION {{[i \in 1..n |-> [home_team |-> Kc, away_team |-> Lv,
                            commence_time |-> i, bookmakers |-> b[i]]] :
            b \in [1..n -> BookmakerLists]} : n \in 0..MaxGames}

SuggestInit ==
  /\ ClientInit
  /\ input \in [kind : {"suggest"}, games : GameLists, num_legs : 0..MaxLegs]
  /\ output = NoOutput

GetSuggestionsForSport ==
  /\ input.kind = "suggest"
  /\ output = NoOutput
  /\ output' = [kind |-> "suggestions",
                 result |-> get_suggestions_for_sport(input.games,
                                                      input.num_legs)]
  /\ UNCHANGED <<client, legacy, input>>

SuggestSpec == SuggestInit /\ [][GetSuggestionsForSport]_vars

\* The suggestion is an outcome of least absolute price of an h2h market of
\* the first bookmaker of the game.
FromFirstBookmaker(suggestion, game) ==
  /\ game.bookmakers # <<>>
  /\ suggestion.bookmaker = game.bookmakers[1].title
  /\ \E m \in 1..Len(game.bookmakers[1].markets) :
       LET market == game.bookmakers[1].markets[m]
       IN /\ market.key = "h2h"
          /\ \E o \in 1..Len(market.outcomes) :
               /\ market.outcomes[o].name = suggestion.team
               /\ market.outcomes[o].price = suggestion.current_odds
               /\ \A q \in 1..Len(market.outcomes) :
                    Abs(market.outcomes[o].price) <= Abs(market.outcomes[q].price)

\* C17: get_suggestions_for_sport returns at most num_legs suggestions, at
\* most one per event and in event order, each from the h2h market of the
\* first bookmaker of its event and each the outcome of least absolute price
\* of that market.
C17_Suggestions ==
  output.kind = "suggestions" =>
    LET suggestions == output.result.suggestions
    IN /\ Len(suggestions) <= input.num_legs
       /\ \A i, j \in 1..Len(suggestions) :
            i < j => suggestions[i].game.commence_time
                       < suggestions[j].game.commence_time
       /\ \A i \in 1..Len(suggestions) :
            /\ suggestions[i].game.commence_time \in 1..Len(input.games)
            /\ FromFirstBookmaker(suggestions[i],
                  input.games[suggestions[i].game.commence_time])

\* Two suggestions from two games, the second game listing two bookmakers.
C17_Witness ==
  /\ output.kind = "suggestions"
  /\ Len(output.result.suggestions) = 2
  /\ Len(input.games[2].bookmakers) = 2
  /\ output.result.suggestions[2].bookmaker = "b1"

(***************************************************************************)
(* The legacy OddsService: get_odds_for_sport, find_game_odds and          *)
(* enrich_from_api_queries.  Sports are "nfl" and "nba"; the provider      *)
(* answers a request with a body of games or the request fails.            *)
(***************************************************************************)
Sports == {"nfl", "nba"}
DEFAULT_MARKETS == <<"h2h", "spreads", "totals">>

\* What requests.get does for one upstream request: a 2xx response, or a
\* requests.exceptions.RequestException (raise_for_status included).
FetchOutcomes == {"ok", "failed"}

\* Line 105: f"odds:{sport_key}:{','.join(markets)}"
odds_cache_key(sport_key, markets) == <<"odds", sport_key, markets>>

\* The n-th body the provider sends: the games of the sport (prices move, so
\* bodies differ), and the x-requests-remaining header that comes with it.
ProviderGames(sport_key, n) ==
  << [sport_key |-> sport_key, home_team |-> Kc, away_team |-> Lv,
      commence_time |-> 1,
      bookmakers |-> << [title |-> "b1",
                         markets |-> <<MarketOf("h2h", -150, 130)>>] >>,
      body |-> n] >>

Quota == 10
RemainingHeader(n) == Quota - n

\* What the provider answers to a request for the given markets and
\* bookmakers (None: all of them): the n-th body with the markets asked for
\* of the bookmakers asked for.
ProviderOdds(sport_key, markets, bookmakers, n) ==
  LET AskedMarket(market) ==
        \E i \in 1..Len(markets) : markets[i] = market.key
      AskedBookmaker(bookmaker) ==
        bookmakers = None
          \/ \E i \in 1..Len(bookmakers[1]) : bookmakers[1][i] = bookmaker.title
      Quoting(bookmaker) ==
        [bookmaker EXCEPT !.markets = SelectSeq(@, AskedMarket)]
      Restricted(game) ==
        [game EXCEPT !.bookmakers =
           SelectSeq([i \in 1..Len(@) |-> Quoting(@[i])],
                     LAMBDA bookmaker :
                       AskedBookmaker(bookmaker) /\ bookmaker.markets # <<>>)]
      games == ProviderGames(sport_key, n)
  IN [g \in 1..Len(games) |-> Restricted(games[g])]

\* get_odds_for_sport(sport_key, markets, bookmakers) in the service state
\* st: the games or the HTTPException(500), and the state after it.  outs[k]
\* is the outcome of the k-th upstream request of the enclosing call.
get_odds_for_sport_of(st, sport_key, markets_arg, bookmakers, outs) ==
  LET markets == IF markets_arg = None THEN DEFAULT_MARKETS ELSE markets_arg[1]
      cache_key == odds_cache_key(sport_key, markets)
      fresh == /\ cache_key \in DOMAIN st.cache
               /\ now - st.cache[cache_key].time < LEGACY_CACHE_TTL
      games == ProviderOdds(sport_key, markets, bookmakers, st.served + 1)
      asked == [st EXCEPT !.nfetch = @ + 1, !.requests[sport_key] = @ + 1]
  IN IF fresh
     THEN [raised |-> FALSE, games |-> st.cache[cache_key].data, st |-> st]
     ELSE IF outs[st.nfetch + 1] = "ok"
     THEN [raised |-> FALSE, games |-> games,
           st |-> [asked EXCEPT
                     !.cache = Put(@, cache_key, [data |-> games, time |-> now]),
                     !.remaining = Some(RemainingHeader(st.served + 1)),
                     !.served = @ + 1]]
     ELSE [raised |-> TRUE, games |-> <<>>, st |-> asked]

\* get_odds_for_sport(sport_key): the default markets, every bookmaker.
get_odds_for_sport(st, sport_key, outs) ==
  get_odds_for_sport_of(st, sport_key, None, None, outs)

\* Lines 161-170 of find_game_odds: the first game a team of which holds
\* team_name, letter case aside.
FirstGame(games, team_name) ==
  LET hits == {k \in 1..Len(games) :
                 \/ Contains(Lower(games[k].home_team), Lower(team_name))
                 \/ Contains(Lower(games[k].away_team), Lower(team_name))}
  IN IF hits = {} THEN None
     ELSE Some(games[CHOOSE k \in hits : \A m \in hits : k <= m])

\* Lines 337-373: the body of the loop for query i.  An exception of the
\* fetch is caught at line 371 and the loop continues.
process_query(st, query, i, outs) ==
  LET fetched == get_odds_for_sport(st, query.sport, outs)
      done == [fetched.st EXCEPT !.processed = @ \cup {i}]
      raised == [done EXCEPT !.failed = @ \cup {i}]
      game == FirstGame(fetched.games, query.team_name)
      team_entry == [game |-> game[1], query_type |-> "team_odds",
                     team_name |-> Some(query.team_name)]
      top == Prefix(fetched.games, 5)
      entries == [k \in 1..Len(top) |->
                    [game |-> top[k], query_type |-> query.query_type,
                     team_name |-> None]]
  IN IF query.query_type = "team_odds"
     THEN IF fetched.raised THEN raised
          ELSE IF game = None THEN done
          ELSE [done EXCEPT !.all_games = Append(@, team_entry),
                            !.contrib[i] = <<team_entry>>]
     ELSE IF query.query_type = "suggestions"
     THEN IF fetched.raised THEN raised
          ELSE [done EXCEPT !.returned =
                  Some([kind |-> "suggestions",
                        body |-> get_suggestions_for_sport(fetched.games, 3),
                        fetched_at |-> now,
                        requests_remaining |-> done.remaining])]
     ELSE IF query.query_type \in {"player_props", "game_odds"}
     THEN IF query.sport \in st.sports_fetched
          THEN [st EXCEPT !.processed = @ \cup {i}]
          ELSE IF fetched.raised THEN raised
          ELSE [done EXCEPT !.all_games = @ \o entries,
                            !.sports_fetched = @ \cup {query.sport},
                            !.contrib[i] = entries]
     ELSE [st EXCEPT !.processed = @ \cup {i}]

\* The loop of line 336 from query i on; line 358 returns out of it.
RECURSIVE ProcessFrom(_, _, _, _)
ProcessFrom(st, api_queries, i, outs) ==
  IF i > Len(api_queries) \/ st.returned # None THEN st
  ELSE ProcessFrom(process_query(st, api_queries[i], i, outs),
                   api_queries, i + 1, outs)

\* Lines 358 and 375-389: the dict the call returns.
enrich_result(st) ==
  IF st.returned # None THEN st.returned[1]
  ELSE IF st.all_games = <<>>
  THEN [kind |-> "games",
        keys |-> {"games", "message", "fetched_at", "requests_remaining"},
        games |-> <<>>, num_games |-> None,
        fetched_at |-> now, requests_remaining |-> st.remaining]
  ELSE [kind |-> "games",
        keys |-> {"games", "num_games", "fetched_at", "requests_remaining"},
        games |-> st.all_games, num_games |-> Some(Len(st.all_games)),
        fetched_at |-> now, requests_remaining |-> st.remaining]

\* The structured queries of a batch.
QueryPool ==
  [query_type : {"team_odds"}, sport : {"nfl"},
   team_name : {<<"k", "c">>, <<"c", "k">>}]
  \cup [query_type : {"game_odds"}, sport : Sports, team_name : {<<>>}]
  \cup [query_type : {"player_props", "suggestions"}, sport : {"nfl"},
        team_name : {<<>>}]

Batches == UNION {[1..n -> QueryPool] : n \in 0..MaxQueries}

EnrichInit ==
  /\ ClientInit
  /\ input \in [kind : {"enrich"}, api_queries : Batches]
  /\ output = NoOutput

\* One call of enrich_from_api_queries with the batch; the call is recorded
\* with the time it ran at, what it returned, the upstream requests it made
\* per sport, and the queries that raised, were processed and what each
\* added to all_games.
EnrichFromApiQueries ==
  /\ input.kind = "enrich"
  /\ Len(enrich_calls) < MaxCalls
  /\ \E outs \in [1..Len(input.api_queries) -> FetchOutcomes] :
       LET st0 == [cache |-> legacy_cache,
                   remaining |-> last_requests_remaining,
                   served |-> legacy_served,
                   nfetch |-> 0,
                   requests |-> [s \in Sports |-> 0],
                   all_games |-> <<>>,
                   sports_fetched |-> {},
                   returned |-> None,
                   failed |-> {},
                   processed |-> {},
                   contrib |-> [k \in 1..Len(input.api_queries) |-> <<>>]]
           st == ProcessFrom(st0, input.api_queries, 1, outs)
       IN /\ legacy_cache' = st.cache
          /\ last_requests_remaining' = st.remaining
          /\ legacy_served' = st.served
          /\ enrich_calls' = Append(enrich_calls,
                [at |-> now,
                 result |-> enrich_result(st),
                 requests |-> st.requests,
                 failed |-> st.failed,
                 processed |-> st.processed,
                 contrib |-> st.contrib])
  /\ UNCHANGED <<client, input, output, usage_records>>

EnrichNext == EnrichFromApiQueries \/ Tick

EnrichSpec == EnrichInit /\ [][EnrichNext]_vars

\* C18: in one enrich_from_api_queries call at most one upstream odds
\* request is made per sport, whatever the batch and whether or not the
\* requests succeed.
C18_OneFetchPerSport ==
  \A n \in 1..Len(enrich_calls) :
     \A s \in Sports : enrich_calls[n].requests[s] <= 1

\* Entry e is one of the games of the returned result.
InResult(e, r) ==
  /\ r.kind = "games"
  /\ \E k \in 1..Len(r.games) : r.games[k] = e

\* C19: when a query of the batch raises, the call still returns, every
\* query after the failing one is processed, and what the other queries
\* added is in the returned result.
C19_FailureIsolated ==
  \A n \in 1..Len(enrich_calls) :
     LET c == enrich_calls[n]
     IN \A i \in c.failed :
          /\ \A j \in (i + 1)..Len(input.api_queries) : j \in c.processed
          /\ \A j \in 1..Len(input.api_queries) :
               \A k \in 1..Len(c.contrib[j]) : InResult(c.contrib[j][k], c.result)

\* C20: a second call with the same batch, within the TTL of what the first
\* call fetched, returns what the first call returned and makes no upstream
\* request.
C20_EnrichIdempotent ==
  (/\ Len(enrich_calls) = 2
   /\ enrich_calls[2].at - enrich_calls[1].at < LEGACY_CACHE_TTL) =>
    /\ enrich_calls[2].result = enrich_calls[1].result
    /\ \A s \in Sports : enrich_calls[2].requests[s] = 0

\* What the queries 1..j added to all_games, in query order.
RECURSIVE Merged(_, _)
Merged(contrib, j) ==
  IF j = 0 THEN <<>> ELSE Merged(contrib, j - 1) \o contrib[j]

\* C23: enrich_from_api_queries routes every query of the batch and returns
\* one dict whose games are what all the queries added, in query order, with
\* num_games (their number, when there are any), fetched_at and the
\* remaining quota; for every
\* batch, a batch that mixes a suggestions query with other queries
\* included.
C23_MergedResult ==
  \A n \in 1..Len(enrich_calls) :
     LET c == enrich_calls[n]
     IN /\ c.processed = 1..Len(input.api_queries)
        /\ c.result.kind = "games"
        /\ c.result.games = Merged(c.contrib, Len(input.api_queries))
        /\ c.result.games # <<>> =>
             c.result.num_games = Some(Len(c.result.games))
        /\ {"fetched_at", "requests_remaining"} \subseteq c.result.keys

(***************************************************************************)
(* OddsApiClient.clear_cache_for_sport on a client that serves odds        *)
(* requests for several sports, one call at a time.                        *)
(***************************************************************************)
IsHexDigit(ch) ==
  ch \in {"0", "1", "2", "3", "4", "5", "6", "7", "8", "9",
          "a", "b", "c", "d", "e", "f"}

\* Lines 515-518: the keys of _cache with sport_key in key.  A key is the
\* hexdigest of an MD5, 32 hexadecimal digits: a sport key with a character
\* that is no hexadecimal digit is in no key, the empty text is in every
\* key, and for any other text the digests decide.
KeysToRemove(sport_key) ==
  IF sport_key = <<>> THEN {DOMAIN cache}
  ELSE IF \E i \in 1..Len(sport_key) : ~IsHexDigit(sport_key[i]) THEN {{}}
  ELSE SUBSET DOMAIN cache

Without(f, keys) == [k \in DOMAIN f \ keys |-> f[k]]

\* The call is recorded in output: the sport and the number of the call.
ClearCacheForSport(sport_key) ==
  /\ NoCallInProgress
  /\ LET n == IF output.kind = "cleared" THEN output.n ELSE 0
     IN /\ n < MaxClears
        /\ output' = [kind |-> "cleared", sport_key |-> sport_key, n |-> n + 1]
  /\ \E keys_to_remove \in KeysToRemove(sport_key) :
       /\ cache' = Without(cache, keys_to_remove)
       /\ request_cache' = Without(request_cache, keys_to_remove)
       /\ last' = [k \in CacheKeys |->
                     IF k \in keys_to_remove THEN "none" ELSE last[k]]
  /\ UNCHANGED <<now, usage, pc, call, response, result, sent, seen,
                 callTime, upstream, served, input, legacy>>

SportNext ==
  \/ \E c \in Callers, r \in SportRequests : NoCallInProgress /\ MakeRequest(c, r)
  \/ \E c \in Callers, o \in Outcomes : UpstreamAnswers(c, o)
  \/ \E c \in Callers : CallerReturns(c)
  \/ \E sport_key \in SportKeys : ClearCacheForSport(sport_key)
  \/ Tick

SportSpec == Init /\ [][SportNext]_vars

\* C21: after clear_cache_for_sport(s) neither _cache nor _request_cache
\* holds an entry of a request on sport s (so the next request for s goes
\* upstream), and the entries of the other sports are as they were.
C21_SportCleared ==
  [][output' # output =>
       \A sport_key \in SportKeys :
          LET k == KeyOf(get_odds_of(sport_key))
          IN IF sport_key = output'.sport_key
             THEN k \notin DOMAIN cache' /\ k \notin DOMAIN request_cache'
             ELSE /\ (k \in DOMAIN cache) = (k \in DOMAIN cache')
                  /\ (k \in DOMAIN cache => cache'[k] = cache[k])
                  /\ (k \in DOMAIN request_cache) = (k \in DOMAIN request_cache')
                  /\ (k \in DOMAIN request_cache =>
                        request_cache'[k] = request_cache[k])]_vars

(***************************************************************************)
(* The legacy OddsService.enrich_parlay_with_odds on legs as the legacy    *)
(* parser returns them and on the games get_odds_for_sport returns.        *)
(***************************************************************************)
Db == <<"D", "b">>

\* The provider's games: the first bookmaker of a game quotes h2h and
\* spreads; one game lists no bookmaker.
ParlayGame(home_team, away_team, commence_time, bookmakers) ==
  [home_team |-> home_team, away_team |-> away_team,
   commence_time |-> commence_time, bookmakers |-> bookmakers]

ParlayBookmakers(home_team, away_team) ==
  << [title |-> "b1",
      markets |-> << [key |-> "h2h",
                      outcomes |-> << [name |-> home_team, price |-> -150,
                                       point |-> None],
                                      [name |-> away_team, price |-> 130,
                                       point |-> None] >>],
                     [key |-> "spreads",
                      outcomes |-> << [name |-> home_team, price |-> -110,
                                       point |-> Some(-3500)],
                                      [name |-> away_team, price |-> -105,
                                       point |-> Some(3500)] >>] >>] >>

ParlayGames ==
  { ParlayGame(Kc, Lv, 1, ParlayBookmakers(Kc, Lv)),
    ParlayGame(Lv, Db, 2, ParlayBookmakers(Lv, Db)),
    ParlayGame(Db, Kc, 3, <<>>) }

\* The legs: dicts of parse_parlay_leg (lines 188-235), among them a
\* moneyline leg whose team is empty.
ParlayLeg(bet_type, team, side, value, original_text) ==
  [keys |-> {"bet_type", "original_text"}
              \cup (IF team # None THEN {"team"} ELSE {})
              \cup (IF side # None THEN {"side"} ELSE {})
              \cup (IF value # None THEN {"value"} ELSE {}),
   bet_type |-> bet_type, team |-> team, side |-> side, value |-> value,
   original_text |-> original_text]

ParlayLegs ==
  { ParlayLeg("moneyline", Some(<<"k", "c">>), None, None, "kc ML"),
    ParlayLeg("moneyline", Some(Lv), None, None, "Lv ML"),
    ParlayLeg("spread", Some(Kc), None, Some(-7000), "Kc -7"),
    ParlayLeg("moneyline", Some(<<"Z">>), None, None, "Z ML"),
    ParlayLeg("moneyline", Some(<<>>), None, None, "ML"),
    ParlayLeg("total", None, Some(over), Some(7000), "Over 7"),
    ParlayLeg("unknown", None, None, None, "Kc") }

matching_game_mut(games, team) ==
  IF games = <<>> THEN None ELSE Some(games[1])

\* Lines 264-272: the first game whose home or away team holds the leg's
\* team, letter case aside.
matching_game(games, team) ==
  LET team_name_lower == Lower(team)
      hits == {k \in 1..Len(games) :
                 \/ Contains(Lower(games[k].home_team), team_name_lower)
                 \/ Contains(Lower(games[k].away_team), team_name_lower)}
  IN IF hits = {} THEN None
     ELSE Some(games[CHOOSE k \in hits : \A h \in hits : k <= h])

\* Lines 287-304: the outcomes of one market that belong to the leg; the
\* last of them sets current_odds (and current_line).
RECURSIVE LastHit(_, _, _)
LastHit(leg, market, o) ==
  IF o = 0 THEN None
  ELSE LET outcome == market.outcomes[o]
           hit == \/ /\ leg.bet_type = "moneyline" /\ market.key = "h2h"
                     /\ Contains(Lower(outcome.name), Lower(leg.team[1]))
                  \/ /\ leg.bet_type = "spread" /\ market.key = "spreads"
                     /\ Contains(Lower(outcome.name), Lower(leg.team[1]))
                  \/ /\ leg.bet_type = "total" /\ market.key = "totals"
                     /\ leg.side # None
                     /\ Lower(outcome.name) = leg.side[1]
       IN IF hit THEN Some(outcome) ELSE LastHit(leg, market, o - 1)

\* Lines 286-304: the loop over the markets of the first bookmaker; a later
\* market with a hit overwrites an earlier one.
RECURSIVE QuotedOutcome(_, _, _)
QuotedOutcome(leg, markets, m) ==
  IF m = 0 THEN None
  ELSE LET hit == LastHit(leg, markets[m], Len(markets[m].outcomes))
       IN IF hit # None THEN hit ELSE QuotedOutcome(leg, markets, m - 1)

\* Lines 259-307: one leg of the loop.
enriched_leg(leg, games) ==
  LET copy == [keys |-> leg.keys, bet_type |-> leg.bet_type,
               team |-> leg.team, side |-> leg.side, value |-> leg.value,
               original_text |-> leg.original_text,
               game |-> None, bookmaker |-> None, current_odds |-> None,
               current_line |-> None, error |-> None]
      truthy == leg.team # None /\ leg.team[1] # <<>>
      game == matching_game(games, leg.team[1])
      quoted == QuotedOutcome(leg, game[1].bookmakers[1].markets,
                              Len(game[1].bookmakers[1].markets))
      found == [copy EXCEPT
                  !.keys = @ \cup {"game"},
                  !.game = Some([home_team |-> game[1].home_team,
                                 away_team |-> game[1].away_team,
                                 commence_time |-> game[1].commence_time])]
      booked == [found EXCEPT !.keys = @ \cup {"bookmaker"},
                              !.bookmaker = Some(game[1].bookmakers[1].title)]
  IN IF ~truthy THEN copy
     ELSE IF game = None
     THEN [copy EXCEPT !.keys = @ \cup {"error"},
                       !.error = Some(<<"Game not found for team: ">>
                                        \o leg.team[1])]
     ELSE IF game[1].bookmakers = <<>> THEN found
     ELSE IF quoted = None THEN booked
     ELSE IF leg.bet_type = "moneyline"
     THEN [booked EXCEPT !.keys = @ \cup {"current_odds"},
                         !.current_odds = Some(quoted[1].price)]
     ELSE [booked EXCEPT !.keys = @ \cup {"current_odds", "current_line"},
                         !.current_odds = Some(quoted[1].price),
                         !.current_line = quoted[1].point]

\* enrich_parlay_with_odds(parlay_legs, sport_key); fetched is what
\* get_odds_for_sport(sport_key) did: the games, or HTTPException(500).
enrich_parlay_with_odds(parlay_legs, fetched) ==
  IF fetched.raised THEN [kind |-> "raised"]
  ELSE [kind |-> "dict",
        legs |-> [i \in 1..Len(parlay_legs) |->
                    enriched_leg(parlay_legs[i], fetched.games)],
        num_legs |-> Len(parlay_legs)]

ParlayInit ==
  /\ ClientInit
  /\ \E n \in 0..MaxLegs, g \in 0..MaxGames :
       \E parlay_legs \in [1..n -> ParlayLegs], games \in [1..g -> ParlayGames],
          fetch \in FetchOutcomes :
          input = [kind |-> "parlay", parlay_legs |-> parlay_legs,
                   fetched |-> IF fetch = "ok"
                               THEN [raised |-> FALSE, games |-> games]
                               ELSE [raised |-> TRUE, games |-> <<>>]]
  /\ output = NoOutput

EnrichParlayWithOdds ==
  /\ input.kind = "parlay"
  /\ output = NoOutput
  /\ output' = [kind |-> "enriched",
                 result |-> enrich_parlay_with_odds(input.parlay_legs,
                                                    input.fetched)]
  /\ UNCHANGED <<client, legacy, input>>

ParlaySpec == ParlayInit /\ [][EnrichParlayWithOdds]_vars

\* The leg names a team: it has a team and the team is not empty.
NamesTeam(leg) == leg.team # None /\ leg.team[1] # <<>>

Holds(game, team) ==
  \/ Contains(Lower(game.home_team), Lower(team))
  \/ Contains(Lower(game.away_team), Lower(team))

Lines == {Some(500 * h) : h \in (0 - MaxHalfPoints)..MaxHalfPoints} \cup {None}

MatchOutcomes == [name : {Kc, Lv}, price : {-110}, point : Lines]

MatchDetails ==
  {[keys |-> {"bet_type", "team", "side", "point"},
    bet_type |-> Some("spreads"), team |-> Some(team),
    side |-> Some(home), point |-> point] :
     team \in {<<"k", "c">>, Lv, <<"Z">>}, point \in Lines}

MatchInit ==
  /\ ClientInit
  /\ input \in [kind : {"match"}, outcome : MatchOutcomes,
                bet_details : MatchDetails]
  /\ output = NoOutput

OutcomeMatchesBet ==
  /\ input.kind = "match"
  /\ output = NoOutput
  /\ output' = [kind |-> "matched",
                 answer |-> outcome_matches_bet(input.outcome,
                                                input.bet_details)]
  /\ UNCHANGED <<client, legacy, input>>

MatchSpec == MatchInit /\ [][OutcomeMatchesBet]_vars

\* C24: for spreads, _outcome_matches_bet accepts an outcome exactly when the
\* bet's team is in the outcome's name, letter case aside, and the two lines
\* differ by less than 0.1, whatever the two lines are (zero, positive or
\* negative).
C24_SpreadMatch ==
  (/\ output.kind = "matched"
   /\ input.outcome.point # None
   /\ input.bet_details.point # None) =>
    /\ ~output.answer.raised
    /\ output.answer.value <=>
         /\ Contains(Lower(input.outcome.name), Lower(input.bet_details.team[1]))
         /\ Abs(input.outcome.point[1] - input.bet_details.point[1]) < 100

\* C25: a leg the parser returns without a team name, absent or empty, is a
\* total: a parsed moneyline or spread leg carries a team that is not empty.
C25_TeamlessIsTotal ==
  (output.kind = "parsed" /\ output.leg # None) =>
    ((output.leg[1].team = None \/ output.leg[1].team[1] = <<>>) =>
       output.leg[1].bet_type = Some("totals"))

\* C26: every suggestion is the favorite of the moneyline market it comes
\* from (the first h2h market of the first bookmaker of its event): no
\* other outcome of that market has a higher implied win probability.
C26_SuggestionIsFavorite ==
  output.kind = "suggestions" =>
    \A i \in 1..Len(output.result.suggestions) :
       LET suggestion == output.result.suggestions[i]
           markets == input.games[suggestion.game.commence_time].bookmakers[1].markets
       IN \E m \in 1..Len(markets) :
            /\ markets[m].key = "h2h"
            /\ \A e \in 1..(m - 1) : markets[e].key # "h2h"
            /\ \E o \in 1..Len(markets[m].outcomes) :
                 /\ markets[m].outcomes[o].name = suggestion.team
                 /\ markets[m].outcomes[o].price = suggestion.current_odds
                 /\ \A q \in 1..Len(markets[m].outcomes) :
                      ~FracLess(ImpliedProbability(markets[m].outcomes[o].price),
                                ImpliedProbability(markets[m].outcomes[q].price))

(***************************************************************************)
(* get_usage_info() while responses are recorded: the callers are threads  *)
(* on one OddsApiClient; neither _update_usage_from_response nor           *)
(* get_usage_info takes a lock, so a thread may be descheduled between two *)
(* attribute accesses.  Every response carries the three quota headers.    *)
(***************************************************************************)

\* The headers of the n-th response of the provider.
UsageHeaders(n) ==
  [h \in {"x-requests-remaining", "x-requests-used", "x-requests-last"} |->
     CASE h = "x-requests-remaining" -> Quota - n
       [] h = "x-requests-used" -> n
       [] OTHER -> n]

\* A thread enters _update_usage_from_response with the next response.
BeginUpdate(c) ==
  /\ pc[c] = "idle"
  /\ served < MaxResponses
  /\ served' = served + 1
  /\ response' = [response EXCEPT ![c] =
                    [kind |-> "response", status_code |-> 200,
                     headers |-> UsageHeaders(served + 1)]]
  /\ pc' = [pc EXCEPT ![c] = "set_remaining"]
  /\ UNCHANGED <<now, cache, request_cache, usage, call, result, sent, seen,
                 callTime, upstream, last, pure, legacy>>

\* Lines 75-76, 78-79, 81-82: one assignment to a field of _usage.
WriteField(c, at, header, then) ==
  /\ pc[c] = at
  /\ response[c].kind = "response"
  /\ usage' =
       IF header \notin DOMAIN response[c].headers THEN usage
       ELSE CASE at = "set_remaining" ->
                   [usage EXCEPT !.requests_remaining =
                                    Some(response[c].headers[header])]
              [] at = "set_used" ->
                   [usage EXCEPT !.requests_used =
                                    Some(response[c].headers[header])]
              [] OTHER ->
                   [usage EXCEPT !.requests_last_cost =
                                    Some(response[c].headers[header])]
  /\ pc' = [pc EXCEPT ![c] = then]
  /\ UNCHANGED <<now, cache, request_cache, call, response, result, sent,
                 seen, callTime, upstream, served, last, pure, legacy>>

UpdateUsageFromResponse(c) ==
  \/ WriteField(c, "set_remaining", "x-requests-remaining", "set_used")
  \/ WriteField(c, "set_used", "x-requests-used", "set_last_cost")
  \/ WriteField(c, "set_last_cost", "x-requests-last", "returned")

\* A thread enters get_usage_info.
BeginUsageInfo(c) ==
  /\ pc[c] = "idle"
  /\ pc' = [pc EXCEPT ![c] = "get_remaining"]
  /\ result' = [result EXCEPT ![c] =
                  [kind |-> "usage_info", requests_remaining |-> None,
                   requests_used |-> None, requests_last_cost |-> None,
                   cache_size |-> 0]]
  /\ UNCHANGED <<now, cache, request_cache, usage, call, response, sent, seen,
                 callTime, upstream, served, last, pure, legacy>>

\* Lines 502-505: the dict display reads the fields one after the other.
ReadField(c, at, then) ==
  /\ pc[c] = at
  /\ result[c].kind = "usage_info"
  /\ result' =
       [result EXCEPT ![c] =
          CASE at = "get_remaining" ->
                 [@ EXCEPT !.requests_remaining = usage.requests_remaining]
            [] at = "get_used" ->
                 [@ EXCEPT !.requests_used = usage.requests_used]
            [] at = "get_last_cost" ->
                 [@ EXCEPT !.requests_last_cost = usage.requests_last_cost]
            [] OTHER ->
                 [@ EXCEPT !.cache_size = Cardinality(DOMAIN cache)]]
  /\ pc' = [pc EXCEPT ![c] = then]
  /\ UNCHANGED <<now, cache, request_cache, usage, call, response, sent, seen,
                 callTime, upstream, served, last, pure, legacy>>

GetUsageInfo(c) ==
  \/ ReadField(c, "get_remaining", "get_used")
  \/ ReadField(c, "get_used", "get_last_cost")
  \/ ReadField(c, "get_last_cost", "get_cache_size")
  \/ ReadField(c, "get_cache_size", "returned")

UsageNext ==
  \/ \E c \in Callers : BeginUpdate(c)
  \/ \E c \in Callers : UpdateUsageFromResponse(c)
  \/ \E c \in Callers : BeginUsageInfo(c)
  \/ \E c \in Callers : GetUsageInfo(c)
  \/ \E c \in Callers : CallerReturns(c)

UsageSpec == Init /\ [][UsageNext]_vars

\* The response a field of a snapshot comes from; 0 when the field is None.
ResponseOf(snapshot, field) ==
  CASE field = "requests_remaining" ->
         IF snapshot.requests_remaining = None THEN 0
         ELSE Quota - snapshot.requests_remaining[1]
    [] field = "requests_used" ->
         IF snapshot.requests_used = None THEN 0
         ELSE snapshot.requests_used[1]
    [] OTHER ->
         IF snapshot.requests_last_cost = None THEN 0
         ELSE snapshot.requests_last_cost[1]

\* C27: a snapshot get_usage_info returns while responses (each with all
\* three headers) are being recorded never mixes fields of two different
\* responses.
C27_SnapshotOfOneResponse ==
  \A c \in Callers :
     (pc[c] = "returned" /\ result[c].kind = "usage_info") =>
        \A f, g \in {"requests_remaining", "requests_used", "requests_last_cost"} :
           (ResponseOf(result[c], f) # 0 /\ ResponseOf(result[c], g) # 0)
             => ResponseOf(result[c], f) = ResponseOf(result[c], g)

(***************************************************************************)
(* track_and_check_usage: the callers are requests served concurrently,    *)
(* each with its own database session, all of one anonymous session or of  *)
(* one authenticated user.  A request can be suspended at each await.      *)
(***************************************************************************)
UserIds == {None, Some("u1")}

\* A request enters track_and_check_usage.
TrackAndCheckUsage(c, user_id) ==
  /\ pc[c] = "idle"
  /\ IF user_id = None THEN usage_records.session < MaxRecords
                       ELSE usage_records.user < MaxUserRecords
  /\ pc' = [pc EXCEPT ![c] = "entered"]
  /\ call' = [call EXCEPT ![c] = [endpoint |-> <<"/", "c">>, params |-> <<>>,
                                   cache_ttl |-> None, user_id |-> user_id]]
  /\ UNCHANGED <<now, cache, request_cache, usage, response, result, sent,
                 seen, callTime, upstream, served, last, pure, legacy>>

\* Lines 111-119: an authenticated request records its usage and returns.
RecordAuthenticated(c) ==
  /\ pc[c] = "entered"
  /\ call[c].user_id # None
  /\ usage_records' = [usage_records EXCEPT !.user = @ + 1]
  /\ result' = [result EXCEPT ![c] = [kind |-> "admitted", headers |-> <<>>]]
  /\ pc' = [pc EXCEPT ![c] = "returned"]
  /\ UNCHANGED <<now, cache, request_cache, usage, call, response, sent, seen,
                 callTime, upstream, served, last, pure, legacy_cache,
                 last_requests_remaining, legacy_served, enrich_calls>>

\* Line 122 and check_anonymous_rate_limit: the count of the session's rows
\* and whether it is below the limit (the default limit of 10).
CheckAnonymousRateLimit(c) ==
  /\ pc[c] = "entered"
  /\ call[c].user_id = None
  /\ result' = [result EXCEPT ![c] =
                  [kind |-> "checked",
                   is_allowed |-> usage_records.session < 10,
                   current_count |-> usage_records.session]]
  /\ pc' = [pc EXCEPT ![c] = "checked"]
  /\ UNCHANGED <<now, cache, request_cache, usage, call, response, sent, seen,
                 callTime, upstream, served, last, pure, legacy>>

\* Lines 124-134: HTTP 429, nothing is recorded.
RejectAnonymous(c) ==
  /\ pc[c] = "checked"
  /\ ~result[c].is_allowed
  /\ result' = [result EXCEPT ![c] =
                  HTTPException(429, "Free request limit exceeded")]
  /\ pc' = [pc EXCEPT ![c] = "returned"]
  /\ UNCHANGED <<now, cache, request_cache, usage, call, response, sent, seen,
                 callTime, upstream, served, last, pure, legacy>>

\* Lines 136-147: the usage of the admitted request is recorded.
RecordAnonymous(c) ==
  /\ pc[c] = "checked"
  /\ result[c].is_allowed
  /\ usage_records' = [usage_records EXCEPT !.session = @ + 1]
  /\ result' = [result EXCEPT ![c] =
                  [kind |-> "admitted",
                   headers |-> [h \in {"X-RateLimit-Limit", "X-RateLimit-Remaining"} |->
                                  IF h = "X-RateLimit-Limit"
                                  THEN ANONYMOUS_REQUEST_LIMIT
                                  ELSE ANONYMOUS_REQUEST_LIMIT
                                         - result[c].current_count - 1]]]
  /\ pc' = [pc EXCEPT ![c] = "returned"]
  /\ UNCHANGED <<now, cache, request_cache, usage, call, response, sent, seen,
                 callTime, upstream, served, last, pure, legacy_cache,
                 last_requests_remaining, legacy_served, enrich_calls>>

RateNext ==
  \/ \E c \in Callers, user_id \in UserIds : TrackAndCheckUsage(c, user_id)
  \/ \E c \in Callers : RecordAuthenticated(c)
  \/ \E c \in Callers : CheckAnonymousRateLimit(c)
  \/ \E c \in Callers : RejectAnonymous(c)
  \/ \E c \in Callers : RecordAnonymous(c)
  \/ \E c \in Callers : CallerReturns(c)

RateSpec == Init /\ [][RateNext]_vars

\* C28: at most ANONYMOUS_REQUEST_LIMIT requests of the anonymous session
\* are admitted in total, also when they arrive concurrently (an admitted
\* request records one row, a rejected one gets 429 and records none, so the
\* session's rows count the admitted requests); an authenticated request is
\* always admitted.
C28_AnonymousLimit ==
  /\ usage_records.session <= ANONYMOUS_REQUEST_LIMIT
  /\ \A c \in Callers :
       (pc[c] = "returned" /\ call[c].user_id = None
          /\ result[c].kind = "HTTPException") =>
         result[c].status_code = 429
  /\ \A c \in Callers :
       (pc[c] = "returned" /\ call[c].user_id # None) =>
         result[c].kind = "admitted"

\* C29: for a leg '<team> -<x>' and a fetched event in which a bookmaker
\* quotes a spreads outcome of that team at point -x, compare_parlay_leg_odds
\* returns a comparison whose bookmaker_odds holds that bookmaker's quote.
C29_FavoriteSpreadQuoted ==
  LET parsed_leg == parse_parlay_leg(input.leg_description)
  IN (/\ output.kind = "leg_compared"
      /\ parsed_leg # None
      /\ parsed_leg[1].bet_type = Some("spreads")
      /\ parsed_leg[1].side = Some(home)
      /\ input.events # <<>>) =>
       \A b \in 1..Len(input.events[1].bookmakers) :
          LET bookmaker == input.events[1].bookmakers[b]
          IN \A m \in 1..Len(bookmaker.markets) :
               \A o \in 1..Len(bookmaker.markets[m].outcomes) :
                  LET outcome == bookmaker.markets[m].outcomes[o]
                  IN (/\ bookmaker.markets[m].key = "spreads"
                      /\ Contains(Lower(outcome.name), Lower(parsed_leg[1].team[1]))
                      /\ outcome.point = Some(0 - parsed_leg[1].point[1])) =>
                       /\ output.result.kind = "ParlayLegComparison"
                       /\ \E q \in 1..Len(output.result.bookmaker_odds) :
                            /\ output.result.bookmaker_odds[q].bookmaker_key
                                 = bookmaker.key
                            /\ output.result.bookmaker_odds[q].line = outcome.point
                            /\ output.result.bookmaker_odds[q].odds
                                 = Some(outcome.price)

(***************************************************************************)
(* The legacy OddsService.get_odds_for_sport called with markets and       *)
(* bookmakers, one call after the other on one service object.             *)
(***************************************************************************)
MarketArgs == {None, Some(<<"h2h">>), Some(<<"spreads">>)}
BookmakerArgs == {None, Some(<<"b1">>), Some(<<"b2">>)}

\* One call; output records the call (its arguments, what it returned and
\* its number).
GetOddsForSport(sport_key, markets, bookmakers) ==
  /\ LET n == IF output.kind = "odds" THEN output.n ELSE 0
         st0 == [cache |-> legacy_cache,
                 remaining |-> last_requests_remaining,
                 served |-> legacy_served,
                 nfetch |-> 0,
                 requests |-> [s \in Sports |-> 0]]
     IN /\ n < MaxCalls
        /\ \E outs \in [1..1 -> FetchOutcomes] :
             LET r == get_odds_for_sport_of(st0, sport_key, markets,
                                            bookmakers, outs)
             IN /\ legacy_cache' = r.st.cache
                /\ last_requests_remaining' = r.st.remaining
                /\ legacy_served' = r.st.served
                /\ output' = [kind |-> "odds", sport_key |-> sport_key,
                              markets |-> markets, bookmakers |-> bookmakers,
                              raised |-> r.raised, games |-> r.games,
                              upstream |-> r.st.nfetch, n |-> n + 1]
  /\ UNCHANGED <<client, input, enrich_calls, usage_records>>

LegacyOddsNext ==
  \/ \E sport_key \in Sports, markets \in MarketArgs,
        bookmakers \in BookmakerArgs :
        GetOddsForSport(sport_key, markets, bookmakers)
  \/ Tick

LegacyOddsSpec == Init /\ [][LegacyOddsNext]_vars

\* C30: the payload a request gets, cached or not, is one the provider sent
\* in answer to a request with the same sport, markets and bookmakers: two
\* odds requests for one sport that differ in markets or bookmakers never
\* get each other's cached payload.
C30_PayloadOfSameRequest ==
  (output.kind = "odds" /\ ~output.raised) =>
    \E n \in 1..legacy_served :
       output.games =
         ProviderOdds(output.sport_key,
                      IF output.markets = None THEN DEFAULT_MARKETS
                      ELSE output.markets[1],
                      output.bookmakers, n)

====
